---- MODULE Spec2Model ----
(***************************************************************************)
(* Verification model of the arctanwines-crm migration tooling and money   *)
(* handling: the pre-commit guard and the Lambda compatibility checker,    *)
(* the Alembic upgrade run, revision 56fcd8e31e43, the wine_inventory      *)
(* table, and the monetary data entry of the frontend.                     *)
(***************************************************************************)
EXTENDS Integers, Sequences, FiniteSets, TLC

VARIABLES
    \* ---- pre-commit guard and compatibility checker
    changed,        \* the files of the commit being made
    manifest,       \* the packages requirements.txt lists
    gphase,         \* "staging" | "done"
    outcome,        \* what test_migrations_hook.py answered: "none" | "allow" | "blocked"
    hookRan,        \* the guard hook was triggered by the changed files
    harnessRan,     \* the Local Test Harness was run by the hook
    harnessPassed,  \* its result (FALSE when it was not run)
    commitAllowed,  \* pre-commit let the commit through
    report,         \* the compatibility report of the last check of this manifest
    checkResult,    \* "none" | "pass" | "fail": that check's overall result
    \* ---- alembic upgrade head (env.py run_migrations_online)
    scripts,        \* the revision files: [revision, down_revision]
    dbVersion,      \* alembic_version as committed in the database
    dbSchema,       \* committed schema changes: <<revision, operation>>
    txVersion,      \* alembic_version as the open transaction sees it
    txSchema,       \* schema changes as the open transaction sees them
    mpc,            \* "idle" | "running" | "success" | "failed" | "config_error"
    todo,           \* the revisions still to apply in this run, in order
    opsDone,        \* operations of the current revision's upgrade() done
    startVersion,   \* alembic_version when the run began
    startSchema,    \* the committed schema when the run began
    applied,        \* the revisions whose upgrade() completed in this run
    failedRev,      \* the revision whose upgrade() raised, NoRev if none
    failedAt,       \* how many of its operations had been done when it raised
    runScripts,     \* the revision files the run read
    \* ---- the database at revisions a370e09fe716 / 56fcd8e31e43
    rSchema,        \* the schema as the open transaction (or the session) sees it
    rCommitted,     \* the committed schema
    rVersion,       \* the committed alembic_version
    rPhase,         \* "rest" | "upgrading" | "downgrading"
    rPc,            \* the operation of upgrade() / downgrade() that is next
    rLast,          \* how the last migration ended: "none" | "upgraded" | "upgrade_failed" | "downgraded" | "downgrade_failed"
    rPre,           \* the committed schema before the last upgrade()
    batchRows,      \* the ids of the rows in wine_batches
    wineRows,       \* the ids of the rows in wines
    inventory,      \* the rows of wine_inventory, by id
    batchCosts,     \* the rows of wine_batch_costs: by id, their batch_id
    lastDelete,     \* how the last DELETE FROM wine_batches ended
    \* ---- the wine batch form and the amount parsers
    batchForm,      \* the state of the WineBatchForm
    wineBatches,    \* the rows POST /db/wine-batches has stored
    lastCreate,     \* how the last createWineBatch ended
    parsed,         \* the last call of parseNOKInput / parseEURInput
    \* ---- environment resolution of alembic/env.py
    environ,        \* os.environ of the process running the migrations
    epc,            \* "idle", "connected" or "failed"
    resolvedEnv,    \* the env get_database_url() determined
    sqlalchemyUrl,  \* configuration['sqlalchemy.url']
    connection,     \* the URL the connection was opened to, or NoConnection
    errorMessage,   \* the exception run_migrations_online() ended with
    urlOf,          \* per determined env, the URL the last such run connected to
    \* ---- the home page (app/page.tsx)
    hostname,       \* window.location.hostname
    outputs,        \* amplify_outputs.json
    mounted,        \* whether Home is mounted
    apiUrl,         \* the apiUrl state
    isLocalDev,     \* the isLocalDev state
    renderedApiUrl, \* apiUrl as the last render's closures hold it
    calls,          \* the requests fetch() was called with
    \* ---- the local API server (local-api-server.js)
    inflight,       \* per request: where it stands, its event, what Python read
    eventFile,      \* the content of temp-event.json
    invokerFile,    \* the content of lambda-invoker.py
    responses,      \* per request, the HTTP response sent
    \* ---- the database dashboard: schema status (DatabaseDashboard)
    dbMounted,          \* the dashboard is open
    migrationStatus,    \* the list of per-table entries
    isCheckingSchema,
    isRunningMigration,
    checks,             \* per checkSchemaStatus call in progress: the index of the table awaited
    migrationPosted,    \* the POST /db/migrate is awaiting its response
    recheckTimers,      \* pending setTimeout(checkSchemaStatus, 1000)
    \* ---- the developer dashboard: endpoint tests (DeveloperDashboard)
    testResults,        \* the list of results
    isRunningTests,
    pendingTests,       \* the runTest calls started from the buttons and not settled
    run,                \* the runAllTests call: where its loop stands
    \* ---- the data management page (DataManagement)
    dmOpen,             \* the page is open
    forms,              \* per form: as initialised, or with the user's values
    lists,              \* per list: the number of rows loaded
    isSubmitting,
    create,             \* the create call in progress, and how the last one ended
    loading,            \* per loadData call: the list it is waiting for
    dbRows,             \* per table: the number of rows in the database
    \* ---- the Amplify provider (AmplifyProvider)
    provMounted,        \* the provider is mounted
    backend,            \* what the /api/config route finds upstream
    configResponse,     \* the outcome of fetch('/api/config'), once it is there
    isConfigured,
    configError,        \* the error state of the provider
    amplifyConfig,      \* the Auth values Amplify.configure was called with
    \* ---- display of amounts (formatNOK / formatEUR) and reading them back
    trip,               \* the last amount displayed and what the parser made of it
    \* ---- the margin of an inventory row
    margin,             \* a cost and a price, and the margin each side derives
    \* ---- the migration Lambda handler (handler.py)
    reply               \* the last request, what alembic did and the answer

guardVars == <<changed, manifest, gphase, outcome, hookRan, harnessRan,
               harnessPassed, commitAllowed, report, checkResult>>

migVars == <<scripts, dbVersion, dbSchema, txVersion, txSchema, mpc, todo,
             opsDone, startVersion, startSchema, applied, failedRev, failedAt,
             runScripts>>

revVars == <<rSchema, rCommitted, rVersion, rPhase, rPc, rLast, rPre, batchRows,
             wineRows, inventory, batchCosts, lastDelete>>

moneyVars == <<batchForm, wineBatches, lastCreate>>
amountVars == <<parsed>>
tripVars == <<trip>>
marginVars == <<margin>>
wrapVars == <<reply>>
envVars == <<environ, epc, resolvedEnv, sqlalchemyUrl, connection, errorMessage, urlOf>>
homeVars == <<hostname, outputs, mounted, apiUrl, isLocalDev, renderedApiUrl, calls>>
serverVars == <<inflight, eventFile, invokerFile, responses>>
schemaVars == <<dbMounted, migrationStatus, isCheckingSchema, isRunningMigration, checks,
                migrationPosted, recheckTimers>>
dashVars == <<testResults, isRunningTests, pendingTests, run>>
dataVars == <<dmOpen, forms, lists, isSubmitting, create, loading, dbRows>>
provVars == <<provMounted, backend, configResponse, isConfigured, configError, amplifyConfig>>
vars == <<guardVars, migVars, revVars, moneyVars, amountVars, envVars, homeVars, serverVars, schemaVars, dashVars, dataVars, provVars, tripVars, marginVars, wrapVars>>

\* ------------------------------------------------------------------------
\* Bounds
\* ------------------------------------------------------------------------
MaxChanged == 2
MaxPkgs == 2
MaxRevs == 3
OpsPerRev == 2
MaxBatchRows == 1
MaxInventory == 2
MaxWines == 1
MaxAmount == 2
MaxLen == 2
MaxBatches == 1
MaxCosts == 1
MaxApis == 2
MaxRequests == 2
MaxTables == 3
MaxChecks == 2
MaxTimers == 1
MaxTests == 2
MaxCreated == 1
\* the amounts displayed range over 0..MaxOre and some larger ones
MaxOre == 120
\* costs and selling prices of an inventory row, in ore
MaxPrice == 12
\* the exit codes of the alembic command are 0..MaxReturnCode
MaxReturnCode == 3

\* ------------------------------------------------------------------------
\* Pre-commit guard (.pre-commit-config.yaml, the migration testing guide)
\* ------------------------------------------------------------------------

\* A changed file: the directory class its path falls in and, for a model
\* file, the declaration its diff adds.
ModelChanges == {"class", "column", "relationship", "tablename", "comment"}

Files ==
    [kind : {"model"}, change : ModelChanges]
    \cup [kind : {"migration", "requirements", "pyproject", "other"}, change : {"edit"}]

\* files: of the hook test-migrations-on-model-changes, with one alternative
\* of the pattern lost
MatchesGuardHookNoModels(f) == f.kind \in {"migration", "requirements", "pyproject"}
MatchesGuardHookNoMigrations(f) == f.kind \in {"model", "requirements", "pyproject"}
MatchesGuardHookNoManifests(f) == f.kind \in {"model", "migration"}

\* files: of the hook test-migrations-on-model-changes

MatchesGuardHook(f) == f.kind \in {"model", "migration", "requirements", "pyproject"}

\* pre-commit runs a hook when some changed file matches its files: pattern
\* (pass_filenames: false, so the script sees the index, not the match).
GuardHookTriggered(fs) == \E f \in fs : MatchesGuardHook(f)

\* Model change detection: new class, column, relationship or __tablename__.
DetectedPatterns == {"class", "column", "relationship", "tablename"}

ModelChangeDetected(fs) ==
    \E f \in fs : f.kind = "model" /\ f.change \in DetectedPatterns

MigrationChanged(fs) == \E f \in fs : f.kind = "migration"

\* The scenarios the hook distinguishes.
Scenario(fs) ==
    IF ModelChangeDetected(fs) /\ ~MigrationChanged(fs) THEN "model_only"
    ELSE IF ModelChangeDetected(fs) /\ MigrationChanged(fs) THEN "model_and_migration"
    ELSE IF MigrationChanged(fs) THEN "migration_only"
    ELSE "unrelated"

\* ------------------------------------------------------------------------
\* Compatibility checker
\* ------------------------------------------------------------------------
BlockedPackages == {"pydantic-core", "psycopg2", "lxml", "mysqlclient"}
WarningPackages == {"numpy", "pandas", "pillow", "cryptography"}
RecommendedPackages == {"psycopg2-binary", "pg8000", "boto3", "sqlalchemy", "alembic"}
Packages == BlockedPackages \cup WarningPackages \cup RecommendedPackages \cup {"requests"}

\* numpy filed under the blocked packages
ClassificationNumpyBlocked(p) ==
    IF p \in BlockedPackages \cup {"numpy"} THEN "blocked"
    ELSE IF p \in WarningPackages THEN "warning"
    ELSE IF p \in RecommendedPackages THEN "recommended"
    ELSE "unknown"

Classification(p) ==
    IF p \in BlockedPackages THEN "blocked"
    ELSE IF p \in WarningPackages THEN "warning"
    ELSE IF p \in RecommendedPackages THEN "recommended"
    ELSE "unknown"

\* a report that names no replacement
SuggestedReplacementNone(p) == "none"

SuggestedReplacement(p) ==
    CASE p = "pydantic-core" -> "pydantic v1.x"
      [] p = "psycopg2" -> "psycopg2-binary"
      [] p = "lxml" -> "xml.etree.ElementTree"
      [] p = "mysqlclient" -> "PyMySQL"
      [] p \in {"numpy", "pandas"} -> "AWS Lambda layers"
      [] p = "pillow" -> "Lambda layers or alternatives"
      [] p = "cryptography" -> "specific versions"
      [] OTHER -> "none"

\* The structured report: one entry per package of the manifest that is
\* blocked or a warning.
CompatReport(pkgs) ==
    { [package |-> p, classification |-> Classification(p),
       suggested_replacement |-> SuggestedReplacement(p)] :
      p \in { q \in pkgs : Classification(q) \in {"blocked", "warning"} } }

BlockedList(rep) == { e \in rep : e.classification = "blocked" }
WarningList(rep) == { e \in rep : e.classification = "warning" }

\* A non-empty blocked list fails the check; warnings are advisory.
OverallResult(rep) == IF BlockedList(rep) # {} THEN "fail" ELSE "pass"

\* ------------------------------------------------------------------------
\* The guard's decision
\* ------------------------------------------------------------------------
GuardDecision(fs, pkgs, harnessOk) ==
    CASE Scenario(fs) = "model_only" -> "blocked"
      [] Scenario(fs) \in {"model_and_migration", "migration_only"} ->
            IF harnessOk /\ OverallResult(CompatReport(pkgs)) = "pass"
            THEN "allow" ELSE "blocked"
      [] OTHER ->
            IF OverallResult(CompatReport(pkgs)) = "pass" THEN "allow" ELSE "blocked"

HarnessRuns(fs) == Scenario(fs) \in {"model_and_migration", "migration_only"}

GuardParked ==
    /\ changed = {}
    /\ manifest = {}
    /\ gphase = "staging"
    /\ outcome = "none"
    /\ hookRan = FALSE
    /\ harnessRan = FALSE
    /\ harnessPassed = FALSE
    /\ commitAllowed = FALSE
    /\ report = {}
    /\ checkResult = "none"

\* git add: one more file in the commit
Stage(f) ==
    /\ gphase = "staging"
    /\ f \notin changed
    /\ Cardinality(changed) < MaxChanged
    /\ changed' = changed \cup {f}
    /\ UNCHANGED <<manifest, gphase, outcome, hookRan, harnessRan, harnessPassed,
                   commitAllowed, report, checkResult>>

\* a line added to requirements.txt
AddPackage(p) ==
    /\ gphase = "staging"
    /\ p \notin manifest
    /\ Cardinality(manifest) < MaxPkgs
    /\ manifest' = manifest \cup {p}
    /\ report' = {}
    /\ checkResult' = "none"
    /\ UNCHANGED <<changed, gphase, outcome, hookRan, harnessRan, harnessPassed,
                   commitAllowed>>

\* a line removed from requirements.txt (pip uninstall / replace)
RemovePackage(p) ==
    /\ gphase = "staging"
    /\ p \in manifest
    /\ manifest' = manifest \ {p}
    /\ report' = {}
    /\ checkResult' = "none"
    /\ UNCHANGED <<changed, gphase, outcome, hookRan, harnessRan, harnessPassed,
                   commitAllowed>>

\* python scripts/test_lambda_compatibility.py, run by hand
RunCompatCheck ==
    /\ gphase = "staging"
    /\ report' = CompatReport(manifest)
    /\ checkResult' = OverallResult(CompatReport(manifest))
    /\ UNCHANGED <<changed, manifest, gphase, outcome, hookRan, harnessRan,
                   harnessPassed, commitAllowed>>

\* git commit: pre-commit runs the hooks whose files: pattern matches.
\* harnessOk is what the Local Test Harness would answer on this tree,
\* othersOk what the other hooks (check-migration-requirements, black) answer.
Commit(harnessOk, othersOk) ==
    /\ gphase = "staging"
    /\ gphase' = "done"
    /\ hookRan' = GuardHookTriggered(changed)
    /\ IF GuardHookTriggered(changed)
       THEN /\ outcome' = GuardDecision(changed, manifest, harnessOk)
            /\ harnessRan' = HarnessRuns(changed)
            /\ harnessPassed' = (HarnessRuns(changed) /\ harnessOk)
            /\ report' = IF Scenario(changed) = "model_only"
                         THEN report ELSE CompatReport(manifest)
            /\ checkResult' = IF Scenario(changed) = "model_only"
                              THEN checkResult
                              ELSE OverallResult(CompatReport(manifest))
            /\ commitAllowed' =
                  (othersOk /\ GuardDecision(changed, manifest, harnessOk) = "allow")
       ELSE /\ outcome' = "allow"
            /\ harnessRan' = FALSE
            /\ harnessPassed' = FALSE
            /\ commitAllowed' = othersOk
            /\ UNCHANGED <<report, checkResult>>
    /\ UNCHANGED <<changed, manifest>>

\* the developer goes on: an allowed commit empties the index, a refused one
\* leaves the files staged to be fixed
NextCommit ==
    /\ gphase = "done"
    /\ gphase' = "staging"
    /\ changed' = IF commitAllowed THEN {} ELSE changed
    /\ outcome' = "none"
    /\ hookRan' = FALSE
    /\ harnessRan' = FALSE
    /\ harnessPassed' = FALSE
    /\ commitAllowed' = FALSE
    /\ UNCHANGED <<manifest, report, checkResult>>


\* ------------------------------------------------------------------------
\* alembic upgrade head: the revision chain and the upgrade run
\* ------------------------------------------------------------------------
\* down_revision = None of the base revision
NoRev == 0
Revs == 1..MaxRevs
Ops == 1..OpsPerRev

Revisions(ss) == { s.revision : s \in ss }

\* the parent pointer of a revision file
DownRevision(ss, r) == (CHOOSE s \in ss : s.revision = r).down_revision

\* head: the revision no other revision names as its down_revision
HeadRevision(ss) ==
    IF ss = {} THEN NoRev
    ELSE CHOOSE r \in Revisions(ss) : \A s \in ss : s.down_revision # r

RECURSIVE PathBetween(_, _, _)
\* the revisions after `from` up to `to`, oldest first, along down_revision
PathBetween(ss, from, to) ==
    IF to = from \/ to = NoRev THEN <<>>
    ELSE Append(PathBetween(ss, from, DownRevision(ss, to)), to)

RECURSIVE PathNewestFirst(_, _, _)
\* the same revisions, newest first
PathNewestFirst(ss, from, to) ==
    IF to = from \/ to = NoRev THEN <<>>
    ELSE <<to>> \o PathNewestFirst(ss, from, DownRevision(ss, to))

\* the path walked from the head down and applied in that order
UpgradePathNewestFirst(ss, current) == PathNewestFirst(ss, current, HeadRevision(ss))

\* alembic upgrade head: what is to be applied from the current revision
UpgradePath(ss, current) == PathBetween(ss, current, HeadRevision(ss))

\* what the database holds once a revision's upgrade() has completed inside
\* context.begin_transaction(): with transaction_per_migration unset the one
\* transaction of the run stays open and nothing is committed yet
CommittedPerMigration(committed, inTx) == inTx
CommittedAfterRevision(committed, inTx) == committed

\* what the database holds once upgrade() raised: the with block leaves by
\* exception and the transaction is rolled back (PostgreSQL DDL is transactional)
CommittedPartial(committed, inTx) == inTx
CommittedAfterFailure(committed, inTx) == committed

\* what the database holds once run_migrations() returned: the transaction commits
CommittedAfterRun(committed, inTx) == inTx

MigParked ==
    /\ scripts = {}
    /\ dbVersion = NoRev
    /\ dbSchema = {}
    /\ txVersion = NoRev
    /\ txSchema = {}
    /\ mpc = "idle"
    /\ todo = <<>>
    /\ opsDone = 0
    /\ startVersion = NoRev
    /\ startSchema = {}
    /\ applied = <<>>
    /\ failedRev = NoRev
    /\ failedAt = 0
    /\ runScripts = {}

\* alembic revision --autogenerate: a new revision file on top of the head
GenerateRevision(r) ==
    /\ mpc \in {"idle", "success", "failed", "config_error"}
    /\ r \in Revs \ Revisions(scripts)
    /\ scripts' = scripts \cup {[revision |-> r, down_revision |-> HeadRevision(scripts)]}
    /\ UNCHANGED <<dbVersion, dbSchema, txVersion, txSchema, mpc, todo, opsDone,
                   startVersion, startSchema, applied, failedRev, failedAt,
                   runScripts>>

\* run_migrations_online: get_database_url(), connect, begin_transaction()
StartRun(ssmOk) ==
    /\ mpc \in {"idle", "success", "failed", "config_error"}
    /\ startVersion' = dbVersion
    /\ startSchema' = dbSchema
    /\ applied' = <<>>
    /\ failedRev' = NoRev
    /\ failedAt' = 0
    /\ runScripts' = scripts
    /\ opsDone' = 0
    /\ IF ssmOk
       THEN /\ mpc' = "running"
            /\ txVersion' = dbVersion
            /\ txSchema' = dbSchema
            /\ todo' = UpgradePath(scripts, dbVersion)
       ELSE /\ mpc' = "config_error"
            /\ todo' = <<>>
            /\ UNCHANGED <<txVersion, txSchema>>
    /\ UNCHANGED <<scripts, dbVersion, dbSchema>>

\* one operation of the current revision's upgrade() succeeds
ApplyOp ==
    /\ mpc = "running"
    /\ todo # <<>>
    /\ opsDone < OpsPerRev
    /\ opsDone' = opsDone + 1
    /\ txSchema' = txSchema \cup {<<Head(todo), opsDone + 1>>}
    /\ UNCHANGED <<scripts, dbVersion, dbSchema, txVersion, mpc, todo,
                   startVersion, startSchema, applied, failedRev, failedAt,
                   runScripts>>

\* upgrade() returned: alembic_version is updated and the next revision is up
FinishRevision ==
    /\ mpc = "running"
    /\ todo # <<>>
    /\ opsDone = OpsPerRev
    /\ txVersion' = Head(todo)
    /\ applied' = Append(applied, Head(todo))
    /\ todo' = Tail(todo)
    /\ opsDone' = 0
    /\ dbVersion' = CommittedAfterRevision(dbVersion, Head(todo))
    /\ dbSchema' = CommittedAfterRevision(dbSchema, txSchema)
    /\ UNCHANGED <<scripts, txSchema, mpc, startVersion, startSchema, failedRev,
                   failedAt, runScripts>>

\* one operation of the current revision's upgrade() raises
FailOp ==
    /\ mpc = "running"
    /\ todo # <<>>
    /\ opsDone < OpsPerRev
    /\ mpc' = "failed"
    /\ failedRev' = Head(todo)
    /\ failedAt' = opsDone
    /\ dbVersion' = CommittedAfterFailure(dbVersion, txVersion)
    /\ dbSchema' = CommittedAfterFailure(dbSchema, txSchema)
    /\ txVersion' = CommittedAfterFailure(dbVersion, txVersion)
    /\ txSchema' = CommittedAfterFailure(dbSchema, txSchema)
    /\ todo' = <<>>
    /\ opsDone' = 0
    /\ UNCHANGED <<scripts, startVersion, startSchema, applied, runScripts>>

\* run_migrations() returned: the transaction commits
FinishRun ==
    /\ mpc = "running"
    /\ todo = <<>>
    /\ mpc' = "success"
    /\ dbVersion' = CommittedAfterRun(dbVersion, txVersion)
    /\ dbSchema' = CommittedAfterRun(dbSchema, txSchema)
    /\ UNCHANGED <<scripts, txVersion, txSchema, todo, opsDone, startVersion,
                   startSchema, applied, failedRev, failedAt, runScripts>>

\* ------------------------------------------------------------------------
\* Revision 56fcd8e31e43 (Revises: a370e09fe716)
\* ------------------------------------------------------------------------
BaseRevision == "a370e09fe716"
ThisRevision == "56fcd8e31e43"

AuditColumns == {"id", "created_at", "updated_at", "active"}

SuppliersColumns ==
    {"name", "country", "contact_person", "email", "phone", "payment_terms",
     "currency", "tax_id"} \cup AuditColumns

WinesColumns ==
    {"name", "producer", "region", "country", "vintage", "grape_varieties",
     "alcohol_content", "bottle_size_ml", "product_category", "tasting_notes",
     "serving_temperature", "food_pairing", "organic", "biodynamic",
     "fiken_product_id"} \cup AuditColumns

WineBatchCostsColumns ==
    {"batch_id", "cost_type", "amount_ore", "currency", "fiken_account_code",
     "payment_date", "allocation_method", "invoice_reference"} \cup AuditColumns

WineInventoryColumns ==
    {"wine_id", "batch_id", "quantity_available", "cost_per_bottle_ore",
     "selling_price_ore", "minimum_stock_level", "location", "best_before_date"}
    \cup AuditColumns

\* wine_batches as a370e09fe716 left it: the columns downgrade() puts back,
\* and those of the table today that upgrade() does not add
WineBatchesBaseColumns ==
    {"id", "batch_number", "wine_name", "producer", "total_bottles", "status",
     "total_cost_nok_ore", "target_price_nok_ore", "created_at", "updated_at"}

TableNames == {"wine_batches", "suppliers", "wines", "wine_batch_costs", "wine_inventory"}

\* a foreign key as the revision declares them: no ondelete
Fk(c, rt, rc) ==
    [column |-> c, reftable |-> rt, refcolumn |-> rc, ondelete |-> "NO ACTION"]

CreateTable(t, cs, fs) == [op |-> "create_table", table |-> t, columns |-> cs, fks |-> fs]
AddColumn(t, c, nullable) == [op |-> "add_column", table |-> t, column |-> c, nullable |-> nullable]
AlterColumn(t, c, ty) == [op |-> "alter_column", table |-> t, column |-> c, type |-> ty]
DropIndex(n, t) == [op |-> "drop_index", name |-> n, table |-> t]
CreateIndex(n, t, c) == [op |-> "create_index", name |-> n, table |-> t, column |-> c]
CreateUniqueConstraint(n, t, c) ==
    [op |-> "create_unique_constraint", name |-> n, table |-> t, column |-> c]
CreateForeignKey(n, t, rt, c, rc) ==
    [op |-> "create_foreign_key", name |-> n, table |-> t, fks |-> {Fk(c, rt, rc)}]
DropColumn(t, c) == [op |-> "drop_column", table |-> t, column |-> c]
DropConstraint(n, t, ty) == [op |-> "drop_constraint", name |-> n, table |-> t, type |-> ty]
DropTable(t) == [op |-> "drop_table", table |-> t]

\* a constraint name: None, or the words of the name
None == <<>>

\* wine_inventory created before the wines table it references
UpgradeOpsInventoryFirst == <<
    CreateTable("wine_inventory", WineInventoryColumns,
                {Fk("batch_id", "wine_batches", "id"), Fk("wine_id", "wines", "id")}),
    CreateTable("wines", WinesColumns, {})
>>

UpgradeOps == <<
    CreateTable("suppliers", SuppliersColumns, {}),
    CreateTable("wines", WinesColumns, {}),
    CreateTable("wine_batch_costs", WineBatchCostsColumns,
                {Fk("batch_id", "wine_batches", "id")}),
    CreateTable("wine_inventory", WineInventoryColumns,
                {Fk("batch_id", "wine_batches", "id"), Fk("wine_id", "wines", "id")}),
    AddColumn("wine_batches", "import_date", FALSE),
    AddColumn("wine_batches", "supplier_id", TRUE),
    AddColumn("wine_batches", "eur_exchange_rate", FALSE),
    AddColumn("wine_batches", "wine_cost_eur_cents", FALSE),
    AddColumn("wine_batches", "transport_cost_ore", TRUE),
    AddColumn("wine_batches", "customs_fee_ore", TRUE),
    AddColumn("wine_batches", "freight_forwarding_ore", TRUE),
    AddColumn("wine_batches", "fiken_sync_status", TRUE),
    AddColumn("wine_batches", "active", FALSE),
    AlterColumn("wine_batches", "status", "winebatchstatus"),
    DropIndex("idx_wine_batch_status", "wine_batches"),
    DropIndex("ix_wine_batches_batch_number", "wine_batches"),
    DropIndex("ix_wine_batches_wine_name", "wine_batches"),
    CreateUniqueConstraint(None, "wine_batches", "batch_number"),
    CreateForeignKey(None, "wine_batches", "suppliers", "supplier_id", "id"),
    DropColumn("wine_batches", "total_cost_nok_ore"),
    DropColumn("wine_batches", "target_price_nok_ore"),
    DropColumn("wine_batches", "producer"),
    DropColumn("wine_batches", "wine_name")
>>

DowngradeOps == <<
    AddColumn("wine_batches", "wine_name", FALSE),
    AddColumn("wine_batches", "producer", FALSE),
    AddColumn("wine_batches", "target_price_nok_ore", TRUE),
    AddColumn("wine_batches", "total_cost_nok_ore", FALSE),
    DropConstraint(None, "wine_batches", "foreignkey"),
    DropConstraint(None, "wine_batches", "unique"),
    CreateIndex("ix_wine_batches_wine_name", "wine_batches", "wine_name"),
    CreateIndex("ix_wine_batches_batch_number", "wine_batches", "batch_number"),
    CreateIndex("idx_wine_batch_status", "wine_batches", "status"),
    AlterColumn("wine_batches", "status", "VARCHAR(9)"),
    DropColumn("wine_batches", "active"),
    DropColumn("wine_batches", "fiken_sync_status"),
    DropColumn("wine_batches", "freight_forwarding_ore"),
    DropColumn("wine_batches", "customs_fee_ore"),
    DropColumn("wine_batches", "transport_cost_ore"),
    DropColumn("wine_batches", "wine_cost_eur_cents"),
    DropColumn("wine_batches", "eur_exchange_rate"),
    DropColumn("wine_batches", "supplier_id"),
    DropColumn("wine_batches", "import_date"),
    DropTable("wine_inventory"),
    DropTable("wine_batch_costs"),
    DropTable("wines"),
    DropTable("suppliers")
>>

\* the schema a370e09fe716 leaves behind
BaseSchema == [
    tables |-> {"wine_batches"},
    columns |-> [t \in TableNames |->
                    IF t = "wine_batches" THEN WineBatchesBaseColumns ELSE {}],
    types |-> [status |-> "VARCHAR(9)"],
    indexes |-> {[name |-> "idx_wine_batch_status", table |-> "wine_batches", column |-> "status"],
                 [name |-> "ix_wine_batches_batch_number", table |-> "wine_batches", column |-> "batch_number"],
                 [name |-> "ix_wine_batches_wine_name", table |-> "wine_batches", column |-> "wine_name"]},
    constraints |-> {} ]

\* the name the database gives a constraint created without one
ConstraintName(n, t, c, suffix) == IF n = None THEN <<t, c, suffix>> ELSE n

ForeignKeys(n, t, fs) ==
    { [name |-> ConstraintName(n, t, f.column, "fkey"), type |-> "foreignkey",
       table |-> t, column |-> f.column,
       reftable |-> f.reftable, refcolumn |-> f.refcolumn,
       ondelete |-> f.ondelete] : f \in fs }

UniqueConstraint(n, t, c) ==
    [name |-> ConstraintName(n, t, c, "key"), type |-> "unique",
     table |-> t, column |-> c, reftable |-> "", refcolumn |-> "", ondelete |-> ""]

\* rows of a table (NOT NULL columns cannot be added to a table with rows
\* unless they carry a default)
RowCount(t) ==
    CASE t = "wine_batches" -> Cardinality(batchRows)
      [] t = "wine_batch_costs" -> Cardinality(DOMAIN batchCosts)
      [] t = "wines" -> Cardinality(wineRows)
      [] t = "wine_inventory" -> Cardinality(DOMAIN inventory)
      [] OTHER -> 0

\* DROP CONSTRAINT needs the name of a constraint of the table
CanDropConstraint(sch, o) ==
    /\ o.name # None
    /\ \E c \in sch.constraints :
          c.name = o.name /\ c.table = o.table /\ c.type = o.type

\* whether the database accepts the operation
CanApply(sch, o) ==
    CASE o.op = "create_table" ->
            /\ o.table \notin sch.tables
            /\ \A f \in o.fks :
                  /\ f.reftable \in sch.tables
                  /\ f.refcolumn \in sch.columns[f.reftable]
      [] o.op = "add_column" ->
            /\ o.table \in sch.tables
            /\ o.column \notin sch.columns[o.table]
            /\ (o.nullable \/ RowCount(o.table) = 0)
      [] o.op = "alter_column" ->     \* the type change itself is accepted
            /\ o.table \in sch.tables
            /\ o.column \in sch.columns[o.table]
      [] o.op = "drop_index" ->
            \E i \in sch.indexes : i.name = o.name /\ i.table = o.table
      [] o.op = "create_index" ->
            /\ ~(\E i \in sch.indexes : i.name = o.name)
            /\ o.table \in sch.tables
            /\ o.column \in sch.columns[o.table]
      [] o.op = "create_unique_constraint" ->
            /\ o.table \in sch.tables
            /\ o.column \in sch.columns[o.table]
      [] o.op = "create_foreign_key" ->
            /\ o.table \in sch.tables
            /\ \A f \in o.fks :
                  /\ f.column \in sch.columns[o.table]
                  /\ f.reftable \in sch.tables
                  /\ f.refcolumn \in sch.columns[f.reftable]
      [] o.op = "drop_column" ->
            /\ o.table \in sch.tables
            /\ o.column \in sch.columns[o.table]
            /\ ~(\E c \in sch.constraints :
                    c.type = "foreignkey" /\ c.reftable = o.table
                    /\ c.refcolumn = o.column)
      [] o.op = "drop_constraint" -> CanDropConstraint(sch, o)
      [] o.op = "drop_table" ->
            /\ o.table \in sch.tables
            /\ ~(\E c \in sch.constraints :
                    c.type = "foreignkey" /\ c.reftable = o.table
                    /\ c.table # o.table)
      [] OTHER -> FALSE

\* the schema after the operation
Apply(sch, o) ==
    CASE o.op = "create_table" ->
            [sch EXCEPT !.tables = @ \cup {o.table},
                        !.columns[o.table] = o.columns,
                        !.constraints = @ \cup ForeignKeys(None, o.table, o.fks)]
      [] o.op = "add_column" ->
            [sch EXCEPT !.columns[o.table] = @ \cup {o.column}]
      [] o.op = "alter_column" ->
            [sch EXCEPT !.types = [@ EXCEPT ![o.column] = o.type]]
      [] o.op = "drop_index" ->
            [sch EXCEPT !.indexes = { i \in @ : i.name # o.name }]
      [] o.op = "create_index" ->
            [sch EXCEPT !.indexes =
                @ \cup {[name |-> o.name, table |-> o.table, column |-> o.column]}]
      [] o.op = "create_unique_constraint" ->
            [sch EXCEPT !.constraints =
                @ \cup {UniqueConstraint(o.name, o.table, o.column)}]
      [] o.op = "create_foreign_key" ->
            [sch EXCEPT !.constraints = @ \cup ForeignKeys(o.name, o.table, o.fks)]
      [] o.op = "drop_column" ->
            [sch EXCEPT !.columns[o.table] = @ \ {o.column},
                        !.constraints =
                            { c \in @ : ~(c.table = o.table /\ c.column = o.column) },
                        !.indexes =
                            { i \in @ : ~(i.table = o.table /\ i.column = o.column) }]
      [] o.op = "drop_constraint" ->
            [sch EXCEPT !.constraints =
                { c \in @ : ~(c.name = o.name /\ c.table = o.table) }]
      [] o.op = "drop_table" ->
            [sch EXCEPT !.tables = @ \ {o.table},
                        !.columns[o.table] = {},
                        !.constraints = { c \in @ : c.table # o.table },
                        !.indexes = { i \in @ : i.table # o.table }]
      [] OTHER -> sch

\* the script of the migration under way
RunningOps == IF rPhase = "upgrading" THEN UpgradeOps ELSE DowngradeOps

NoRows == [i \in {} |-> 0]
Amounts == 0..MaxAmount
InventoryIds == 1..MaxInventory
BatchIds == 1..MaxBatchRows
CostIds == 1..MaxCosts
WineIds == 1..MaxWines

\* The columns of a table that the database computes itself (sa.Computed,
\* GENERATED ALWAYS AS ... STORED): the create_table calls of the revision
\* declare none.
GeneratedColumns(t) == {}

\* a row of wine_inventory as stored: the values the INSERT gives, and the
\* generated columns of the table as the database computes them
InventoryRow(w, cost, price) ==
    [c \in {"wine_id", "cost_per_bottle_ore", "selling_price_ore"}
           \cup GeneratedColumns("wine_inventory") |->
        CASE c = "wine_id" -> w
          [] c = "cost_per_bottle_ore" -> cost
          [] c = "selling_price_ore" -> price
          [] c = "margin_ore" -> price - cost
          [] OTHER -> 0]

RevParked ==
    /\ rSchema = BaseSchema
    /\ rCommitted = BaseSchema
    /\ rVersion = BaseRevision
    /\ rPhase = "rest"
    /\ rPc = 0
    /\ rLast = "none"
    /\ rPre = BaseSchema
    /\ batchRows = {}
    /\ wineRows = {}
    /\ inventory = NoRows
    /\ batchCosts = NoRows
    /\ lastDelete = "none"

\* INSERT INTO wine_batches
InsertBatch(b) ==
    /\ rPhase = "rest"
    /\ b \notin batchRows
    /\ batchRows' = batchRows \cup {b}
    /\ UNCHANGED <<rSchema, rCommitted, rVersion, rPhase, rPc, rLast, rPre,
                   wineRows, inventory, batchCosts, lastDelete>>

\* INSERT INTO wines
InsertWine(w) ==
    /\ rPhase = "rest"
    /\ "wines" \in rCommitted.tables
    /\ w \notin wineRows
    /\ wineRows' = wineRows \cup {w}
    /\ UNCHANGED <<rSchema, rCommitted, rVersion, rPhase, rPc, rLast, rPre,
                   batchRows, inventory, batchCosts, lastDelete>>

\* INSERT INTO wine_inventory
InsertInventory(i, w, cost, price) ==
    /\ rPhase = "rest"
    /\ "wine_inventory" \in rCommitted.tables
    /\ i \notin DOMAIN inventory
    /\ w \in wineRows
    /\ inventory' = [j \in DOMAIN inventory \cup {i} |->
                        IF j = i THEN InventoryRow(w, cost, price) ELSE inventory[j]]
    /\ UNCHANGED <<rSchema, rCommitted, rVersion, rPhase, rPc, rLast, rPre,
                   batchRows, wineRows, batchCosts, lastDelete>>

\* UPDATE wine_inventory SET cost_per_bottle_ore, selling_price_ore
UpdateInventory(i, cost, price) ==
    /\ rPhase = "rest"
    /\ i \in DOMAIN inventory
    /\ inventory' = [inventory EXCEPT
                        ![i] = InventoryRow(inventory[i]["wine_id"], cost, price)]
    /\ UNCHANGED <<rSchema, rCommitted, rVersion, rPhase, rPc, rLast, rPre,
                   batchRows, wineRows, batchCosts, lastDelete>>

\* the rows of wine_batch_costs that reference batch b
CostsOf(b) == { c \in DOMAIN batchCosts : batchCosts[c] = b }

\* the foreign keys from wine_batch_costs to wine_batches
CostForeignKeys ==
    { k \in rCommitted.constraints :
        /\ k.type = "foreignkey"
        /\ k.table = "wine_batch_costs"
        /\ k.reftable = "wine_batches" }

\* INSERT INTO wine_batch_costs: batch_id must be the id of a batch
InsertBatchCost(c, b) ==
    /\ rPhase = "rest"
    /\ "wine_batch_costs" \in rCommitted.tables
    /\ c \notin DOMAIN batchCosts
    /\ b \in batchRows
    /\ batchCosts' = [j \in DOMAIN batchCosts \cup {c} |->
                         IF j = c THEN b ELSE batchCosts[j]]
    /\ UNCHANGED <<rSchema, rCommitted, rVersion, rPhase, rPc, rLast, rPre,
                   batchRows, wineRows, inventory, lastDelete>>

\* DELETE FROM wine_batches WHERE id = b: the rows that reference b go with
\* it when their foreign key cascades; otherwise the statement is rejected
DeleteBatch(b) ==
    /\ rPhase = "rest"
    /\ b \in batchRows
    /\ IF CostsOf(b) = {}
       THEN /\ batchRows' = batchRows \ {b}
            /\ lastDelete' = "deleted"
            /\ UNCHANGED batchCosts
       ELSE IF \A k \in CostForeignKeys : k.ondelete = "CASCADE"
       THEN /\ batchRows' = batchRows \ {b}
            /\ batchCosts' = [j \in DOMAIN batchCosts \ CostsOf(b) |-> batchCosts[j]]
            /\ lastDelete' = "cascaded"
       ELSE /\ lastDelete' = "rejected"
            /\ UNCHANGED <<batchRows, batchCosts>>
    /\ UNCHANGED <<rSchema, rCommitted, rVersion, rPhase, rPc, rLast, rPre,
                   wineRows, inventory>>

\* alembic upgrade 56fcd8e31e43: the transaction begins
BeginUpgrade ==
    /\ rPhase = "rest"
    /\ rVersion = BaseRevision
    /\ rPhase' = "upgrading"
    /\ rPc' = 1
    /\ rPre' = rCommitted
    /\ rLast' = "none"
    /\ UNCHANGED <<rSchema, rCommitted, rVersion, batchRows, wineRows, inventory, batchCosts, lastDelete>>

\* alembic downgrade a370e09fe716: the transaction begins
BeginDowngrade ==
    /\ rPhase = "rest"
    /\ rVersion = ThisRevision
    /\ rPhase' = "downgrading"
    /\ rPc' = 1
    /\ rLast' = "none"
    /\ UNCHANGED <<rSchema, rCommitted, rVersion, rPre, batchRows, wineRows,
                   inventory, batchCosts, lastDelete>>

\* the next op.* call of the script is accepted
StepOk ==
    /\ rPhase \in {"upgrading", "downgrading"}
    /\ rPc <= Len(RunningOps)
    /\ CanApply(rSchema, RunningOps[rPc])
    /\ rSchema' = Apply(rSchema, RunningOps[rPc])
    /\ rPc' = rPc + 1
    /\ UNCHANGED <<rCommitted, rVersion, rPhase, rLast, rPre, batchRows, wineRows,
                   inventory, batchCosts, lastDelete>>

\* the next op.* call raises: the transaction is rolled back
StepFail ==
    /\ rPhase \in {"upgrading", "downgrading"}
    /\ rPc <= Len(RunningOps)
    /\ ~CanApply(rSchema, RunningOps[rPc])
    /\ rSchema' = rCommitted
    /\ rPhase' = "rest"
    /\ rLast' = IF rPhase = "upgrading" THEN "upgrade_failed" ELSE "downgrade_failed"
    /\ UNCHANGED <<rCommitted, rVersion, rPc, rPre, batchRows, wineRows, inventory, batchCosts, lastDelete>>

\* the script returned: alembic_version is set and the transaction commits
FinishMigration ==
    /\ rPhase \in {"upgrading", "downgrading"}
    /\ rPc > Len(RunningOps)
    /\ rCommitted' = rSchema
    /\ rVersion' = IF rPhase = "upgrading" THEN ThisRevision ELSE BaseRevision
    /\ rLast' = IF rPhase = "upgrading" THEN "upgraded" ELSE "downgraded"
    /\ rPhase' = "rest"
    /\ rPc' = 0
    /\ wineRows' = IF "wines" \in rSchema.tables THEN wineRows ELSE {}
    /\ inventory' = IF "wine_inventory" \in rSchema.tables THEN inventory ELSE NoRows
    /\ batchCosts' = IF "wine_batch_costs" \in rSchema.tables THEN batchCosts ELSE NoRows
    /\ UNCHANGED <<rSchema, rPre, batchRows, lastDelete>>

\* ------------------------------------------------------------------------
\* Monetary amounts: the wine batch form and parseNOKInput / parseEURInput

\* what a user may type: a string is a sequence of these (the words NOK and
\* EUR are typed as a whole)
Digits == {"5"}
Tokens == Digits \cup {"-", ".", " ", "NOK", "EUR", "€"}
Strings == UNION { [1..n -> Tokens] : n \in 0..MaxLen }
\* what an <input type="number"> takes
NumberTokens == Digits \cup {"-", "."}
NumberStrings == UNION { [1..n -> NumberTokens] : n \in 0..MaxLen }
Texts == {"", "ACEDIANO"}

\* the decimal digits, and white space as \s and trim() take it: the space
\* and the no-break space among others
DecimalDigits == <<"0", "1", "2", "3", "4", "5", "6", "7", "8", "9">>
WhiteSpace == {" ", "NBSP"}

IsDigit(c) == \E d \in 1..10 : DecimalDigits[d] = c

DigitValue(c) == (CHOOSE d \in 1..10 : DecimalDigits[d] = c) - 1

\* the number a run of digits writes
RECURSIVE NumberOf(_)
NumberOf(ds) ==
    IF ds = <<>> THEN 0
    ELSE 10 * NumberOf(SubSeq(ds, 1, Len(ds) - 1)) + DigitValue(ds[Len(ds)])

\* how many digits s has from position i on
RECURSIVE DigitRun(_, _)
DigitRun(s, i) ==
    IF i <= Len(s) /\ IsDigit(s[i]) THEN 1 + DigitRun(s, i + 1) ELSE 0

RECURSIVE Pow10(_)
Pow10(k) == IF k = 0 THEN 1 ELSE 10 * Pow10(k - 1)

\* String.prototype.replace(/.../g, ''): the tokens of ts are removed
Remove(s, ts) == SelectSeq(s, LAMBDA c : c \notin ts)

\* s.trim() === ''
IsBlank(s) == \A i \in 1..Len(s) : s[i] \in WhiteSpace

RECURSIVE TrimStart(_)
TrimStart(s) == IF s # <<>> /\ s[1] \in WhiteSpace THEN TrimStart(Tail(s)) ELSE s

\* parseFloat: the longest prefix that is a decimal literal, as
\* sign * digits / 10^scale, or NaN
ParseFloat(str) ==
    LET s == TrimStart(str)
        neg == s # <<>> /\ s[1] = "-"
        start == IF neg THEN 2 ELSE 1
        ni == DigitRun(s, start)
        dot == start + ni <= Len(s) /\ s[start + ni] = "."
        nf == IF dot THEN DigitRun(s, start + ni + 1) ELSE 0
        int == SubSeq(s, start, start + ni - 1)
        frac == SubSeq(s, start + ni + 1, start + ni + nf)
    IN  [nan |-> ni + nf = 0,
         sign |-> IF neg THEN -1 ELSE 1,
         digits |-> NumberOf(int \o frac),
         scale |-> nf]

\* parseInt: the longest prefix that is a signed run of digits, or NaN
ParseInt(str) ==
    LET s == TrimStart(str)
        neg == s # <<>> /\ s[1] = "-"
        start == IF neg THEN 2 ELSE 1
        ni == DigitRun(s, start)
    IN  [nan |-> ni = 0,
         value |-> (IF neg THEN -1 ELSE 1)
                   * NumberOf(SubSeq(s, start, start + ni - 1))]

\* Math.round(x * 100): the nearest integer, a half going up (the floating
\* point product rounds to the same integer for amounts of up to four
\* characters)
MathRound100(x) ==
    (2 * x.sign * x.digits * 100 + Pow10(x.scale)) \div (2 * Pow10(x.scale))

ParseAmount(str, units) ==
    IF IsBlank(str) THEN 0
    ELSE LET amount == ParseFloat(Remove(str, units \cup WhiteSpace))
         IN  IF amount.nan THEN 0 ELSE MathRound100(amount)

parseNOKInput(nokString) == ParseAmount(nokString, {"NOK"})

parseEURInput(eurString) == ParseAmount(eurString, {"EUR", "€"})

\* Number.prototype.toLocaleString('no-NO', { minimumFractionDigits: 2,
\* maximumFractionDigits: 2 }). The runtime formats with the locale data it
\* has: Norwegian (groups of three digits set apart by a no-break space, a
\* decimal comma), or, where that data is not built in, its default locale
\* (en-US: a comma between the groups, a decimal point).
Locales == {"no-NO", "en-US"}
GroupSeparator(locale) == IF locale = "no-NO" THEN "NBSP" ELSE ","
DecimalSeparator(locale) == IF locale = "no-NO" THEN "," ELSE "."

\* the decimal digits of a natural number
RECURSIVE DigitsOf(_)
DigitsOf(n) ==
    IF n < 10 THEN <<DecimalDigits[n + 1]>>
    ELSE Append(DigitsOf(n \div 10), DecimalDigits[(n % 10) + 1])

\* the digits in groups of three, counted from the right
RECURSIVE Grouped(_, _)
Grouped(ds, sep) ==
    IF Len(ds) <= 3 THEN ds
    ELSE Grouped(SubSeq(ds, 1, Len(ds) - 3), sep) \o <<sep>>
         \o SubSeq(ds, Len(ds) - 2, Len(ds))

\* (hundredths / 100).toLocaleString(...) of a non-negative integer
ToLocaleString(locale, hundredths) ==
    Grouped(DigitsOf(hundredths \div 100), GroupSeparator(locale))
    \o <<DecimalSeparator(locale)>>
    \o <<DecimalDigits[((hundredths % 100) \div 10) + 1],
         DecimalDigits[(hundredths % 10) + 1]>>

\* formatNOK / formatEUR of a number (of null or undefined they give
\* "0.00 NOK" and "\u20ac0.00")
formatNOK(locale, ore) == ToLocaleString(locale, ore) \o <<" ", "NOK">>

formatEUR(locale, cents) == <<"€">> \o ToLocaleString(locale, cents)

\* the amounts displayed
OreAmounts == (0..MaxOre) \cup {2550, 84000, 336000, 336050, 123456789}

NoTrip == [fn |-> "none", locale |-> "none", amount |-> 0, text |-> <<>>, back |-> 0]

TripParked == trip = NoTrip

\* an amount in ore is displayed and the text displayed is parsed
DisplayAndParseNOK(locale, ore) ==
    trip' = [fn |-> "NOK", locale |-> locale, amount |-> ore,
             text |-> formatNOK(locale, ore),
             back |-> parseNOKInput(formatNOK(locale, ore))]

\* an amount in cents is displayed and the text displayed is parsed
DisplayAndParseEUR(locale, cents) ==
    trip' = [fn |-> "EUR", locale |-> locale, amount |-> cents,
             text |-> formatEUR(locale, cents),
             back |-> parseEURInput(formatEUR(locale, cents))]

\* ------------------------------------------------------------------------
\* The margin of an inventory row: calculateMarginPercentage and
\* calculateMarkupPercentage of the frontend, and the generated column
\* wine_inventory.margin_percentage. A percentage is kept as the exact
\* fraction num / den.
Prices == 0..MaxPrice

Abs(n) == IF n < 0 THEN -n ELSE n

calculateMarkupPercentage(costOre, sellingPriceOre) ==
    IF costOre = 0 THEN [num |-> 0, den |-> 1]
    ELSE [num |-> (sellingPriceOre - costOre) * 100, den |-> costOre]

calculateMarginPercentage(costOre, sellingPriceOre) ==
    IF costOre = 0 \/ sellingPriceOre = 0 THEN [num |-> 0, den |-> 1]
    ELSE [num |-> (sellingPriceOre - costOre) * 100, den |-> sellingPriceOre]

\* a numeric value rounded to two decimals, in hundredths, a half going away
\* from zero
RoundToHundredths(num, den) ==
    (IF num < 0 THEN -1 ELSE 1) * ((2 * Abs(num) * 100 + den) \div (2 * den))

\* margin_percentage DECIMAL(5,2) GENERATED ALWAYS AS (CASE WHEN
\* cost_per_bottle_ore > 0 THEN ((selling_price_ore - cost_per_bottle_ore)
\* ::DECIMAL / cost_per_bottle_ore * 100) ELSE 0 END) STORED: the value in
\* hundredths of a percent; a value that does not fit five digits is a
\* numeric field overflow and the row is not stored
margin_percentage(cost_per_bottle_ore, selling_price_ore) ==
    LET hundredths ==
            IF cost_per_bottle_ore > 0
            THEN RoundToHundredths((selling_price_ore - cost_per_bottle_ore) * 100,
                                   cost_per_bottle_ore)
            ELSE 0
    IN  [stored |-> Abs(hundredths) < 100000, hundredths |-> hundredths]

NoMargin == [cost |-> 0, price |-> 0, shown |-> "none",
             frontend |-> [num |-> 0, den |-> 1],
             database |-> [stored |-> TRUE, hundredths |-> 0]]

MarginParked == margin = NoMargin

\* the frontend computes the margin of a row that is written to wine_inventory
ComputeMargin(cost, price) ==
    margin' = [cost |-> cost, price |-> price, shown |-> "margin",
               frontend |-> calculateMarginPercentage(cost, price),
               database |-> margin_percentage(cost, price)]

\* the frontend computes the markup of a row that is written to wine_inventory
ComputeMarkup(cost, price) ==
    margin' = [cost |-> cost, price |-> price, shown |-> "markup",
               frontend |-> calculateMarkupPercentage(cost, price),
               database |-> margin_percentage(cost, price)]

\* ------------------------------------------------------------------------
\* The migration Lambda handler (handler.py): alembic run as a subprocess
\* ------------------------------------------------------------------------
\* what subprocess.run(['alembic', ...], capture_output=True, text=True) may
\* do: raise (alembic cannot be started), or return a CompletedProcess
\* (the standard output as a sequence of lines and line ends)
StdOuts == {<<>>, <<"56fcd8e31e43 (head)", "\n">>,
            <<"<base> -> 56fcd8e31e43 (head)", "\n">>}
StdErrs == {"", "INFO  [alembic.runtime.migration] Will assume transactional DDL.",
            "FAILED: Can't locate revision identified by '56fcd8e31e43'"}
CompletedProcesses ==
    [raised : {FALSE}, returncode : 0..MaxReturnCode, stdout : StdOuts, stderr : StdErrs]
\* (raised: stderr stands for the message of the exception)
CannotStart ==
    [raised |-> TRUE, returncode |-> 0, stdout |-> <<>>,
     stderr |-> "[Errno 2] No such file or directory: 'alembic'"]
Runs == CompletedProcesses \cup {CannotStart}

NoBody == [status |-> "none"]

\* raise HTTPException(status_code=500, detail=...)
HTTPException(status_code, detail) ==
    [status_code |-> status_code, body |-> NoBody, detail |-> detail]

\* return {...}
Return(body) == [status_code |-> 200, body |-> body, detail |-> <<>>]

\* str(e) of the exception the try block raised: the message of the error
\* of subprocess.run, or the status code and the detail of an HTTPException
StrOfHTTPException(e) == <<"500: ">> \o e.detail

\* str.strip(): white space at both ends is removed
RECURSIVE Strip(_)
Strip(text) ==
    IF text # <<>> /\ text[1] \in WhiteSpace \cup {"\n"} THEN Strip(Tail(text))
    ELSE IF text # <<>> /\ text[Len(text)] \in WhiteSpace \cup {"\n"}
         THEN Strip(SubSeq(text, 1, Len(text) - 1))
         ELSE text

\* POST /migrate/upgrade
UpgradeResponse(result) ==
    IF result.raised THEN HTTPException(500, <<result.stderr>>)
    ELSE IF result.returncode = 0
         THEN Return([status |-> "success",
                      message |-> "Database upgraded successfully",
                      output |-> result.stdout])
         ELSE HTTPException(500,
                  StrOfHTTPException(
                      HTTPException(500, <<"Migration failed: ", result.stderr>>)))

\* GET /migrate/current
CurrentResponse(result) ==
    IF result.raised THEN HTTPException(500, <<result.stderr>>)
    ELSE Return([current_revision |-> Strip(result.stdout), status |-> "success"])

\* GET /migrate/history
HistoryResponse(result) ==
    IF result.raised THEN HTTPException(500, <<result.stderr>>)
    ELSE Return([history |-> result.stdout, status |-> "success"])

NoReply == [operation |-> "none", result |-> CannotStart,
            response |-> HTTPException(0, <<>>)]

WrapParked == reply = NoReply

upgrade_database(result) ==
    reply' = [operation |-> "upgrade", result |-> result,
              response |-> UpgradeResponse(result)]

current_revision(result) ==
    reply' = [operation |-> "current", result |-> result,
              response |-> CurrentResponse(result)]

migration_history(result) ==
    reply' = [operation |-> "history", result |-> result,
              response |-> HistoryResponse(result)]

\* parseInt(e.target.value) || 0
ParseIntOrZero(value) == IF ParseInt(value).nan THEN 0 ELSE ParseInt(value).value

EmptyForm ==
    [batch_number |-> "", wine_name |-> "", producer |-> "",
     total_bottles |-> 0, total_cost_nok_ore |-> 0, target_price_nok_ore |-> 0]

TextFields == {"batch_number", "wine_name", "producer"}
NumberFields == {"total_bottles", "total_cost_nok_ore", "target_price_nok_ore"}
MonetaryFields == {"total_cost_nok_ore", "target_price_nok_ore"}

\* disabled={!batch_number || !wine_name || !producer || !total_bottles}
CreateDisabled(f) ==
    \/ f.batch_number = ""
    \/ f.wine_name = ""
    \/ f.producer = ""
    \/ f.total_bottles = 0

MoneyParked ==
    /\ batchForm = EmptyForm
    /\ wineBatches = <<>>
    /\ lastCreate = "none"

AmountParked == parsed = [fn |-> "none", in |-> <<>>, out |-> 0]

\* onChange of a text input
SetText(field, value) ==
    /\ batchForm' = [batchForm EXCEPT ![field] = value]
    /\ UNCHANGED <<wineBatches, lastCreate>>

\* onChange of a number input
SetNumber(field, value) ==
    /\ batchForm' = [batchForm EXCEPT ![field] = ParseIntOrZero(value)]
    /\ UNCHANGED <<wineBatches, lastCreate>>

\* createWineBatch: the form is posted as it stands; stored, it is reset
createWineBatch(stored) ==
    /\ ~CreateDisabled(batchForm)
    /\ IF stored
       THEN /\ Len(wineBatches) < MaxBatches
            /\ wineBatches' = Append(wineBatches, batchForm)
            /\ batchForm' = EmptyForm
            /\ lastCreate' = "created"
       ELSE /\ lastCreate' = "failed"
            /\ UNCHANGED <<batchForm, wineBatches>>

ParseNOK(nokString) ==
    parsed' = [fn |-> "parseNOKInput", in |-> nokString,
               out |-> parseNOKInput(nokString)]

ParseEUR(eurString) ==
    parsed' = [fn |-> "parseEURInput", in |-> eurString,
               out |-> parseEURInput(eurString)]

\* ------------------------------------------------------------------------
\* Environment resolution (alembic/env.py)
\* ------------------------------------------------------------------------
\* Values of the environment variables, as sequences of words
AmplifyEnvs == {<<>>, <<"SANDBOX", "-", "dani">>, <<"main">>}
Branches == {<<>>, <<"dev">>, <<"test">>, <<"sandbox">>, <<"main">>}
FunctionNames == {<<>>, <<"db", "-", "migrations">>,
                  <<"db", "-", "migrations", "-", "Test">>, <<"sandbox", "-", "db">>}

\* str.lower()
Lower(s) ==
    [i \in 1..Len(s) |->
        CASE s[i] = "SANDBOX" -> "sandbox"
          [] s[i] = "Test" -> "test"
          [] OTHER -> s[i]]

\* w in s
In(w, s) == \E i \in 1..Len(s) : s[i] = w

\* the branch of get_database_url() that determines env
DetermineEnv(e) ==
    IF \/ In("sandbox", Lower(e.AMPLIFY_ENV))
       \/ e.AWS_BRANCH \in {<<"dev">>, <<"test">>, <<"sandbox">>}
       \/ In("sandbox", Lower(e.AWS_LAMBDA_FUNCTION_NAME))
       \/ In("test", Lower(e.AWS_LAMBDA_FUNCTION_NAME))
    THEN "test" ELSE "prod"

\* the five parameters, in the order they are looked up
ParameterKeys == <<"host", "port", "name", "username", "password">>
Keys == { ParameterKeys[i] : i \in 1..Len(ParameterKeys) }

\* Name= of the lookup: the same for every env
ParameterName(env, key) == <<"amplify", "arctanwines", "database", key>>

\* the parameter store
SsmParameters ==
    [n \in { ParameterName(env, k) : env \in {"test", "prod"}, k \in Keys } |->
        <<"value of", n>>]

\* sqlalchemy.url of alembic.ini
IniUrl == <<"sqlite:///test_migration.db">>
NoConnection == <<>>
NoError == [text |-> "", cause |-> ""]

\* the first lookup that raises
FirstFailing(failing) ==
    ParameterKeys[CHOOSE i \in 1..Len(ParameterKeys) :
                     /\ ParameterKeys[i] \in failing
                     /\ \A j \in 1..(i - 1) : ParameterKeys[j] \notin failing]

\* get_database_url() falling back to the configured URL
GetDatabaseUrlOrDefault(e, failing) ==
    IF failing = {}
    THEN [ok |-> TRUE,
          url |-> <<"postgresql+psycopg2">> \o
                  [i \in 1..Len(ParameterKeys) |->
                      SsmParameters[ParameterName(DetermineEnv(e), ParameterKeys[i])]],
          error |-> NoError]
    ELSE [ok |-> TRUE, url |-> IniUrl, error |-> NoError]

\* get_database_url(): the URL built from the five parameters, or the
\* exception raised when a lookup fails
get_database_url(e, failing) ==
    IF failing = {}
    THEN [ok |-> TRUE,
          url |-> <<"postgresql+psycopg2">> \o
                  [i \in 1..Len(ParameterKeys) |->
                      SsmParameters[ParameterName(DetermineEnv(e), ParameterKeys[i])]],
          error |-> NoError]
    ELSE [ok |-> FALSE, url |-> NoConnection,
          error |-> [text |-> "Could not get database configuration",
                     cause |-> FirstFailing(failing)]]

EnvParked ==
    /\ environ = [AMPLIFY_ENV |-> <<>>, AWS_BRANCH |-> <<>>,
                  AWS_LAMBDA_FUNCTION_NAME |-> <<>>]
    /\ epc = "idle"
    /\ resolvedEnv = "none"
    /\ sqlalchemyUrl = IniUrl
    /\ connection = NoConnection
    /\ errorMessage = NoError
    /\ urlOf = [env \in {"test", "prod"} |-> NoConnection]

\* a process starts with these environment variables
StartProcess(a, b, f) ==
    /\ environ' = [AMPLIFY_ENV |-> a, AWS_BRANCH |-> b, AWS_LAMBDA_FUNCTION_NAME |-> f]
    /\ epc' = "idle"
    /\ resolvedEnv' = "none"
    /\ sqlalchemyUrl' = IniUrl
    /\ connection' = NoConnection
    /\ errorMessage' = NoError
    /\ UNCHANGED urlOf

\* run_migrations_online() up to connectable.connect(); failing are the
\* parameters whose lookup raises
run_migrations_online(failing) ==
    LET r == get_database_url(environ, failing)
    IN  /\ epc = "idle"
        /\ resolvedEnv' = DetermineEnv(environ)
        /\ IF r.ok
           THEN /\ sqlalchemyUrl' = r.url
                /\ connection' = r.url
                /\ epc' = "connected"
                /\ urlOf' = [urlOf EXCEPT ![DetermineEnv(environ)] = r.url]
                /\ UNCHANGED errorMessage
           ELSE /\ errorMessage' = r.error
                /\ epc' = "failed"
                /\ UNCHANGED <<sqlalchemyUrl, connection, urlOf>>
        /\ UNCHANGED environ

\* ------------------------------------------------------------------------
\* The home page: which API the page calls (app/page.tsx)
\* ------------------------------------------------------------------------
LOCAL_API_URL == "http://localhost:3001"

Hostnames == {"localhost", "127.0.0.1", "main.arctanwines.amplifyapp.com"}

\* the resources outputs.api may hold: with an apiEndpoint or without
ApiResources ==
    {[apiEndpoint |-> "https://a.execute-api.amazonaws.com"],
     [apiEndpoint |-> "https://b.execute-api.amazonaws.com"],
     [region |-> "eu-west-1"]}

\* amplify_outputs.json: without an api object, or with one of some resources
Outputs ==
    {[auth |-> "auth"]}
    \cup { [auth |-> "auth", api |-> rs] :
             rs \in UNION { [1..n -> ApiResources] : n \in 0..MaxApis } }

\* the forEach over Object.values(outputs.api): the last apiEndpoint stays
RECURSIVE LastEndpoint(_, _)
LastEndpoint(rs, found) ==
    IF rs = <<>> THEN found
    ELSE LastEndpoint(Tail(rs),
                      IF "apiEndpoint" \in DOMAIN Head(rs)
                      THEN Head(rs).apiEndpoint ELSE found)

FoundApiUrl(o) == IF "api" \in DOMAIN o THEN LastEndpoint(o.api, "") ELSE ""

IsLocal(h) == h = "localhost" \/ h = "127.0.0.1"

\* the apiUrl state after the effect that sets the API URL
ApiUrlAfterEffect(h, o, current) ==
    IF FoundApiUrl(o) # "" /\ ~IsLocal(h) THEN FoundApiUrl(o) ELSE current

\* the fetches of the effect on [apiUrl]
LoadApiData(url) ==
    IF url # "" THEN {[url |-> url, path |-> "/"], [url |-> url, path |-> "/items"]}
    ELSE {}

HomeParked ==
    /\ hostname = "localhost"
    /\ outputs = [auth |-> "auth"]
    /\ mounted = FALSE
    /\ apiUrl = LOCAL_API_URL
    /\ isLocalDev = TRUE
    /\ renderedApiUrl = LOCAL_API_URL
    /\ calls = {}

\* the page is opened: first render with the initial state, then the effects
\* of the mount in order: the API URL is set, the API data is loaded
OpenPage(h, o) ==
    /\ ~mounted
    /\ mounted' = TRUE
    /\ hostname' = h
    /\ outputs' = o
    /\ isLocalDev' = IsLocal(h)
    /\ renderedApiUrl' = LOCAL_API_URL
    /\ apiUrl' = ApiUrlAfterEffect(h, o, LOCAL_API_URL)
    /\ calls' = LoadApiData(LOCAL_API_URL)

\* the render after setApiUrl changed the state: the effect on [apiUrl] runs
Rerender ==
    /\ mounted
    /\ renderedApiUrl # apiUrl
    /\ renderedApiUrl' = apiUrl
    /\ calls' = calls \cup LoadApiData(apiUrl)
    /\ UNCHANGED <<hostname, outputs, mounted, apiUrl, isLocalDev>>

\* what the buttons fetch: /, /items and /users/${userId}
FetchPaths == {"/", "/items", "/users/123", "/users/456"}

\* Refresh Hello World, Refresh Items, Get User
ClickFetch(path) ==
    /\ mounted
    /\ renderedApiUrl = apiUrl
    /\ calls' = calls \cup {[url |-> renderedApiUrl, path |-> path]}
    /\ UNCHANGED <<hostname, outputs, mounted, apiUrl, isLocalDev, renderedApiUrl>>

\* the page is closed
ClosePage ==
    /\ mounted
    /\ mounted' = FALSE
    /\ hostname' = "localhost"
    /\ outputs' = [auth |-> "auth"]
    /\ apiUrl' = LOCAL_API_URL
    /\ isLocalDev' = TRUE
    /\ renderedApiUrl' = LOCAL_API_URL
    /\ calls' = {}

\* ------------------------------------------------------------------------
\* The local API server (local-api-server.js)
\* ------------------------------------------------------------------------
\* paths as their segments; a trailing slash is an empty last segment
RequestPaths ==
    {<<>>, <<"items">>, <<"items", "">>, <<"users", "123">>, <<"users", "me">>,
     <<"wines", "7">>, <<"nope">>}
Methods == {"GET", "POST"}
RequestIds == 1..MaxRequests

\* the routes discovered from the FastAPI application
FastApiRoutes ==
    <<[method |-> "GET", path |-> <<>>],
      [method |-> "GET", path |-> <<"items">>],
      [method |-> "GET", path |-> <<"users", "{user_id}">>],
      [method |-> "GET", path |-> <<"users", "me">>],
      [method |-> "GET", path |-> <<"{collection}", "{item_id}">>],
      [method |-> "POST", path |-> <<"items">>]>>

\* path = path === '/' ? '/' : path.replace(/\/$/, '')
NormalisePath(path) ==
    IF path # <<>> /\ path[Len(path)] = "" THEN SubSeq(path, 1, Len(path) - 1) ELSE path

\* routePart.startsWith('{') && routePart.endsWith('}'), and the name between
ParameterNames ==
    [part \in {"{user_id}", "{collection}", "{item_id}"} |->
        CASE part = "{user_id}" -> "user_id"
          [] part = "{collection}" -> "collection"
          [] part = "{item_id}" -> "item_id"]

IsParameter(part) == part \in DOMAIN ParameterNames
PathParamName(part) == IF IsParameter(part) THEN ParameterNames[part] ELSE part

NoParams == [n \in {} |-> ""]

\* extractPathParams: the parameters, or null when the path does not match
extractPathParams(routeTemplate, actualPath) ==
    IF Len(routeTemplate) # Len(actualPath) THEN [match |-> FALSE, params |-> NoParams]
    ELSE IF \E i \in 1..Len(routeTemplate) :
                ~IsParameter(routeTemplate[i]) /\ routeTemplate[i] # actualPath[i]
    THEN [match |-> FALSE, params |-> NoParams]
    ELSE [match |-> TRUE,
          params |-> [n \in { PathParamName(routeTemplate[i]) :
                                i \in { j \in 1..Len(routeTemplate) :
                                          IsParameter(routeTemplate[j]) } } |->
                        actualPath[CHOOSE i \in 1..Len(routeTemplate) :
                                      /\ IsParameter(routeTemplate[i])
                                      /\ PathParamName(routeTemplate[i]) = n]]]

\* no route is looked up by its exact path
NoDirectMatches(method, path) == {}

\* indexes of the routes that match directly, and of those that match with
\* parameters
DirectMatches(method, path) ==
    { i \in 1..Len(FastApiRoutes) :
        FastApiRoutes[i].method = method /\ FastApiRoutes[i].path = path }

ParameterMatches(method, path) ==
    { i \in 1..Len(FastApiRoutes) :
        /\ FastApiRoutes[i].method = method
        /\ \E k \in 1..Len(FastApiRoutes[i].path) : IsParameter(FastApiRoutes[i].path[k])
        /\ extractPathParams(FastApiRoutes[i].path, path).match }

Least(S) == CHOOSE i \in S : \A j \in S : i <= j

\* the matching route and its parameters: a direct match first
MatchRoute(method, path) ==
    IF DirectMatches(method, path) # {}
    THEN [found |-> TRUE, params |-> NoParams]
    ELSE IF ParameterMatches(method, path) # {}
    THEN [found |-> TRUE,
          params |-> extractPathParams(
                        FastApiRoutes[Least(ParameterMatches(method, path))].path,
                        path).params]
    ELSE [found |-> FALSE, params |-> NoParams]

\* createApiGatewayEvent
createApiGatewayEvent(method, path, pathParams, body) ==
    [routeKey |-> <<method, path>>, rawPath |-> path,
     pathParameters |-> pathParams,
     body |-> IF method # "GET" THEN body ELSE "null"]

\* what the Lambda handler answers to an event
LambdaResult(event) == [statusCode |-> 200, body |-> <<"result for", event>>]

NoEvent == [routeKey |-> <<>>]
NoRequest == [method |-> "", path |-> <<>>]
Idle == [pc |-> "idle", request |-> NoRequest, event |-> NoEvent, read |-> NoEvent]
NoResponse == [statusCode |-> 0, body |-> <<>>]
InvokerScript == "lambda-invoker.py: load index.py, read temp-event.json, call handler"

ServerParked ==
    /\ inflight = [r \in RequestIds |-> Idle]
    /\ eventFile = NoEvent
    /\ invokerFile = ""
    /\ responses = [r \in RequestIds |-> NoResponse]

\* the request handler up to exec(): the route is matched, the event and the
\* invoker script are written, the Python process is started
HandleRequest(r, method, rawPath, body) ==
    LET path == NormalisePath(rawPath)
        route == MatchRoute(method, path)
        event == createApiGatewayEvent(method, path, route.params, body)
        request == [method |-> method, path |-> rawPath]
    IN  /\ inflight[r].pc = "idle"
        /\ responses' = [responses EXCEPT ![r] = NoResponse]
        /\ IF route.found
           THEN /\ eventFile' = event
                /\ invokerFile' = InvokerScript
                /\ inflight' = [inflight EXCEPT
                                   ![r] = [pc |-> "spawned", request |-> request,
                                           event |-> event, read |-> NoEvent]]
           ELSE /\ inflight' = [inflight EXCEPT
                                   ![r] = [pc |-> "next", request |-> request,
                                           event |-> NoEvent, read |-> NoEvent]]
                /\ UNCHANGED <<eventFile, invokerFile>>

\* the Python process of request r opens temp-event.json
PythonLoadsEvent(r) ==
    /\ inflight[r].pc = "spawned"
    /\ inflight' = [inflight EXCEPT ![r].pc = "loaded", ![r].read = eventFile]
    /\ UNCHANGED <<eventFile, invokerFile, responses>>

\* the exec callback: the result printed by the handler is sent, or 500
\* when the process failed
ExecCallback(r, failed) ==
    /\ inflight[r].pc = "loaded"
    /\ responses' = [responses EXCEPT
                        ![r] = IF failed
                               THEN [statusCode |-> 500,
                                     body |-> <<"Failed to invoke Lambda function">>]
                               ELSE LambdaResult(inflight[r].read)]
    /\ inflight' = [inflight EXCEPT ![r].pc = "responded"]
    /\ UNCHANGED <<eventFile, invokerFile>>

\* no route matched: the 404 middleware answers
NotFound(r) ==
    /\ inflight[r].pc = "next"
    /\ responses' = [responses EXCEPT
                        ![r] = [statusCode |-> 404, body |-> <<"Not Found">>]]
    /\ inflight' = [inflight EXCEPT ![r].pc = "responded"]
    /\ UNCHANGED <<eventFile, invokerFile>>

\* the connection of an answered request is closed
CloseRequest(r) ==
    /\ inflight[r].pc = "responded"
    /\ inflight' = [inflight EXCEPT ![r] = Idle]
    /\ UNCHANGED <<eventFile, invokerFile, responses>>

\* ------------------------------------------------------------------------
\* The database dashboard: schema status (DatabaseDashboard)
\* ------------------------------------------------------------------------
AllTables ==
    <<"wine_batches", "suppliers", "wines", "wine_inventory", "wine_batch_costs",
      "customers", "orders", "order_items">>

\* expectedSchema, cut to its first MaxTables tables
expectedSchema == SubSeq(AllTables, 1, MaxTables)

TableStatuses == {"complete", "missing", "partial"}

\* what the query of a table's endpoint gives: the body, or an error with
\* its message (the parts of the text; none when the error has no message)
SchemaResponses ==
    {[ok |-> TRUE, message |-> <<>>],
     [ok |-> FALSE, message |-> <<"relation \"wines\" ", "does not exist">>],
     [ok |-> FALSE, message |-> <<"ERROR ", "42P01">>],
     [ok |-> FALSE, message |-> <<"Internal Server Error">>],
     [ok |-> FALSE, message |-> <<>>]}

\* errorMsg.includes(part)
Includes(message, part) == \E i \in DOMAIN message : message[i] = part

\* every failure counted as a table in need of migration
ClassifyFailuresPartial(response) ==
    IF response.ok THEN [exists |-> TRUE, status |-> "complete"]
    ELSE [exists |-> TRUE, status |-> "partial"]

\* the entry of the try branch and of the two catch branches
Classify(response) ==
    IF response.ok THEN [exists |-> TRUE, status |-> "complete"]
    ELSE IF Includes(response.message, "does not exist")
            \/ Includes(response.message, "42P01")
    THEN [exists |-> FALSE, status |-> "missing"]
    ELSE [exists |-> TRUE, status |-> "partial"]

CheckIds == 1..MaxChecks
NotRunning == 0

pendingMigrations ==
    Cardinality({ i \in DOMAIN migrationStatus :
                    migrationStatus[i].status \in {"missing", "partial"} })

completedMigrations ==
    Cardinality({ i \in DOMAIN migrationStatus : migrationStatus[i].status = "complete" })

\* the Migration Status card and the Run Migration button, as rendered
MigrationStatusLabel == IF pendingMigrations > 0 THEN "Action Required" ELSE "Up to Date"

RunMigrationDisabled == isRunningMigration \/ pendingMigrations = 0

RunMigrationLabel ==
    IF isRunningMigration THEN "Running..."
    ELSE IF pendingMigrations > 0 THEN "Run Migration" ELSE "No Migration Needed"

SchemaParked ==
    /\ dbMounted = FALSE
    /\ migrationStatus = <<>>
    /\ isCheckingSchema = FALSE
    /\ isRunningMigration = FALSE
    /\ checks = [c \in CheckIds |-> NotRunning]
    /\ migrationPosted = FALSE
    /\ recheckTimers = 0

\* checkSchemaStatus up to its first await
checkSchemaStatus(c) ==
    /\ checks[c] = NotRunning
    /\ isCheckingSchema' = TRUE
    /\ migrationStatus' = <<>>
    /\ checks' = [checks EXCEPT ![c] = 1]

\* the dashboard is opened: the mount effect calls checkSchemaStatus
MountDashboard(c) ==
    /\ ~dbMounted
    /\ dbMounted' = TRUE
    /\ checkSchemaStatus(c)
    /\ UNCHANGED <<isRunningMigration, migrationPosted, recheckTimers>>

\* the Refresh Schema button, disabled while isCheckingSchema
ClickRefreshSchema(c) ==
    /\ dbMounted
    /\ ~isCheckingSchema
    /\ checkSchemaStatus(c)
    /\ UNCHANGED <<dbMounted, isRunningMigration, migrationPosted, recheckTimers>>

\* the query of the awaited table settles: its entry is appended, and the
\* loop goes on to the next table or ends
TableChecked(c, response) ==
    /\ checks[c] # NotRunning
    /\ migrationStatus' =
          Append(migrationStatus,
                 [table |-> expectedSchema[checks[c]],
                  exists |-> Classify(response).exists,
                  status |-> Classify(response).status,
                  response |-> response])
    /\ IF checks[c] < Len(expectedSchema)
       THEN /\ checks' = [checks EXCEPT ![c] = @ + 1]
            /\ UNCHANGED isCheckingSchema
       ELSE /\ checks' = [checks EXCEPT ![c] = NotRunning]
            /\ isCheckingSchema' = FALSE
    /\ UNCHANGED <<dbMounted, isRunningMigration, migrationPosted, recheckTimers>>

\* the Run Migration button, disabled while isRunningMigration or when no
\* table needs migration
runMigration ==
    /\ dbMounted
    /\ ~isRunningMigration
    /\ pendingMigrations # 0
    /\ isRunningMigration' = TRUE
    /\ migrationPosted' = TRUE
    /\ UNCHANGED <<dbMounted, migrationStatus, isCheckingSchema, checks, recheckTimers>>

\* the POST /db/migrate settles: on success the re-check is scheduled
MigrationSettled(ok) ==
    /\ migrationPosted
    /\ ok => recheckTimers < MaxTimers
    /\ migrationPosted' = FALSE
    /\ isRunningMigration' = FALSE
    /\ recheckTimers' = IF ok THEN recheckTimers + 1 ELSE recheckTimers
    /\ UNCHANGED <<dbMounted, migrationStatus, isCheckingSchema, checks>>

\* the timer fires one second later
RecheckTimerFires(c) ==
    /\ recheckTimers > 0
    /\ recheckTimers' = recheckTimers - 1
    /\ checkSchemaStatus(c)
    /\ UNCHANGED <<dbMounted, isRunningMigration, migrationPosted>>

\* ------------------------------------------------------------------------
\* The developer dashboard: endpoint tests (DeveloperDashboard)
\* ------------------------------------------------------------------------
\* the endpoint names, the first two of the list
endpoints == <<"Health Check", "Database Test">>

EndpointNames == { endpoints[i] : i \in DOMAIN endpoints }

\* a pending call: its endpoint, and whether the list was emptied after it
\* started
PendingKinds == [endpoint : EndpointNames, startedBeforeClear : BOOLEAN]

RECURSIVE SumOver(_, _)
SumOver(f, S) ==
    IF S = {} THEN 0
    ELSE LET k == CHOOSE x \in S : TRUE IN f[k] + SumOver(f, S \ {k})

PendingCount == SumOver(pendingTests, PendingKinds)

\* the list with nothing filtered out
WithoutEndpointKept(results, name) == results

\* prev.filter(r => r.endpoint !== name)
WithoutEndpoint(results, name) ==
    SelectSeq(results, LAMBDA r : r.endpoint # name)

\* setTestResults(prev => [...prev.filter(...), entry])
PutResult(results, name, status, stale) ==
    Append(WithoutEndpoint(results, name),
           [endpoint |-> name, status |-> status, startedBeforeClear |-> stale])

\* the list is emptied: every pending call is now one started before the clear
MarkStarted(pending) ==
    [k \in PendingKinds |->
        IF k.startedBeforeClear
        THEN pending[k] + pending[[endpoint |-> k.endpoint, startedBeforeClear |-> FALSE]]
        ELSE 0]

Outcome(ok) == IF ok THEN "success" ELSE "error"

NoRun == [phase |-> "idle", i |-> 0, startedBeforeClear |-> FALSE,
          failed |-> FALSE, tested |-> <<>>]

DashParked ==
    /\ testResults = <<>>
    /\ isRunningTests = FALSE
    /\ pendingTests = [k \in PendingKinds |-> 0]
    /\ run = NoRun

\* runTest from an endpoint's button, up to the await
runTest(name) ==
    LET k == [endpoint |-> name, startedBeforeClear |-> FALSE]
    IN  /\ PendingCount < MaxTests
        /\ testResults' = PutResult(testResults, name, "loading", FALSE)
        /\ pendingTests' = [pendingTests EXCEPT ![k] = @ + 1]
        /\ UNCHANGED <<isRunningTests, run>>

\* the call of a button's runTest settles: the success or the error entry
TestSettled(k, ok) ==
    /\ pendingTests[k] > 0
    /\ pendingTests' = [pendingTests EXCEPT ![k] = @ - 1]
    /\ testResults' = PutResult(testResults, k.endpoint, Outcome(ok), k.startedBeforeClear)
    /\ UNCHANGED <<isRunningTests, run>>

\* runAllTests up to the await of the first runTest; the button is disabled
\* while isRunningTests
runAllTests ==
    /\ ~isRunningTests
    /\ isRunningTests' = TRUE
    /\ testResults' = PutResult(<<>>, endpoints[1], "loading", FALSE)
    /\ pendingTests' = MarkStarted(pendingTests)
    /\ run' = [phase |-> "testing", i |-> 1, startedBeforeClear |-> FALSE,
               failed |-> FALSE, tested |-> <<endpoints[1]>>]

\* the run stops at a failed call (the loop as it would be without the
\* try/catch of runTest)
RunTestSettledOrAborted(ok) ==
    /\ run.phase = "testing"
    /\ testResults' = PutResult(testResults, endpoints[run.i], Outcome(ok),
                                run.startedBeforeClear)
    /\ run' = [run EXCEPT !.phase = IF ok THEN "delay" ELSE "aborted",
                          !.failed = @ \/ ~ok]
    /\ UNCHANGED <<isRunningTests, pendingTests>>

\* the call of the run's runTest settles; the loop waits 500 ms
RunTestSettled(ok) ==
    /\ run.phase = "testing"
    /\ testResults' = PutResult(testResults, endpoints[run.i], Outcome(ok),
                                run.startedBeforeClear)
    /\ run' = [run EXCEPT !.phase = "delay", !.failed = @ \/ ~ok]
    /\ UNCHANGED <<isRunningTests, pendingTests>>

\* the 500 ms have passed: the next endpoint, or the end of the run
DelayElapsed ==
    /\ run.phase = "delay"
    /\ IF run.i < Len(endpoints)
       THEN /\ testResults' = PutResult(testResults, endpoints[run.i + 1], "loading", FALSE)
            /\ run' = [run EXCEPT !.phase = "testing", !.i = @ + 1,
                                  !.startedBeforeClear = FALSE,
                                  !.tested = Append(@, endpoints[run.i + 1])]
            /\ UNCHANGED isRunningTests
       ELSE /\ isRunningTests' = FALSE
            /\ run' = [run EXCEPT !.phase = "idle"]
            /\ UNCHANGED testResults
    /\ UNCHANGED pendingTests

\* the Clear Results button
clearResults ==
    /\ testResults' = <<>>
    /\ pendingTests' = MarkStarted(pendingTests)
    /\ run' = [run EXCEPT !.startedBeforeClear = @ \/ (run.phase = "testing")]
    /\ UNCHANGED isRunningTests

\* ------------------------------------------------------------------------
\* The data management page (DataManagement)
\* ------------------------------------------------------------------------
\* the lists in the order loadData loads them
ListOrder == <<"suppliers", "wines", "batches", "customers">>
ListNames == { ListOrder[i] : i \in DOMAIN ListOrder }

\* the forms with a create button
FormNames == {"suppliers", "wines", "batches"}

\* the loadData call of the mount effect and the one of a create
Loaders == {"mount", "create"}
NotLoading == 0

\* what a create request can give: the row is stored and the answer read;
\* the request is rejected; the row is stored but the answer cannot be read
CreateOutcomes == {"created", "rejected", "unreadable"}

TotalRows == dbRows["suppliers"] + dbRows["wines"] + dbRows["batches"] + dbRows["customers"]

NoCreate == [pc |-> "idle", form |-> "none", last |-> "none"]

DataParked ==
    /\ dmOpen = FALSE
    /\ forms = [f \in FormNames |-> "initial"]
    /\ lists = [l \in ListNames |-> 0]
    /\ isSubmitting = FALSE
    /\ create = NoCreate
    /\ loading = [l \in Loaders |-> NotLoading]
    /\ dbRows = [l \in ListNames |-> 0]

\* the page is opened: the mount effect calls loadData
OpenDataManagement ==
    /\ ~dmOpen
    /\ dmOpen' = TRUE
    /\ loading' = [loading EXCEPT !["mount"] = 1]
    /\ UNCHANGED <<forms, lists, isSubmitting, create, dbRows>>

\* the user types into a form, or empties it again
EditForm(f, value) ==
    /\ dmOpen
    /\ forms[f] # value
    /\ forms' = [forms EXCEPT ![f] = value]
    /\ UNCHANGED <<dmOpen, lists, isSubmitting, create, loading, dbRows>>

\* createSupplier / createWine / createBatch up to the await of the post;
\* the button is disabled while a required field is empty or isSubmitting
CreateClicked(f) ==
    /\ dmOpen
    /\ forms[f] = "entered"
    /\ ~isSubmitting
    /\ isSubmitting' = TRUE
    /\ create' = [pc |-> "posting", form |-> f, last |-> "none"]
    /\ UNCHANGED <<dmOpen, forms, lists, loading, dbRows>>

\* a failed create resets the form all the same
CreateSettledAlwaysReset(result) ==
    /\ create.pc = "posting"
    /\ result \in CreateOutcomes
    /\ result # "rejected" => TotalRows < MaxCreated
    /\ dbRows' = IF result = "rejected" THEN dbRows
                 ELSE [dbRows EXCEPT ![create.form] = @ + 1]
    /\ forms' = [forms EXCEPT ![create.form] = "initial"]
    /\ IF result = "created"
       THEN /\ create' = [create EXCEPT !.pc = "reloading"]
            /\ loading' = [loading EXCEPT !["create"] = 1]
            /\ UNCHANGED isSubmitting
       ELSE /\ create' = [pc |-> "idle", form |-> create.form, last |-> "failed"]
            /\ isSubmitting' = FALSE
            /\ UNCHANGED loading
    /\ UNCHANGED <<dmOpen, lists>>

\* the post settles: on success the form is reset and loadData is called;
\* on failure the alert is shown and isSubmitting is set back
CreateSettled(result) ==
    /\ create.pc = "posting"
    /\ result \in CreateOutcomes
    /\ result # "rejected" => TotalRows < MaxCreated
    /\ dbRows' = IF result = "rejected" THEN dbRows
                 ELSE [dbRows EXCEPT ![create.form] = @ + 1]
    /\ IF result = "created"
       THEN /\ forms' = [forms EXCEPT ![create.form] = "initial"]
            /\ create' = [create EXCEPT !.pc = "reloading"]
            /\ loading' = [loading EXCEPT !["create"] = 1]
            /\ UNCHANGED isSubmitting
       ELSE /\ create' = [pc |-> "idle", form |-> create.form, last |-> "failed"]
            /\ isSubmitting' = FALSE
            /\ UNCHANGED <<forms, loading>>
    /\ UNCHANGED <<dmOpen, lists>>

\* the end of a loadData call; the create that awaited it shows its alert
\* and sets isSubmitting back
LoadEnded(l) ==
    /\ loading' = [loading EXCEPT ![l] = NotLoading]
    /\ IF l = "create"
       THEN /\ create' = [pc |-> "idle", form |-> create.form, last |-> "created"]
            /\ isSubmitting' = FALSE
       ELSE UNCHANGED <<create, isSubmitting>>

\* loadData: the awaited list arrives and is set, or its request fails; a
\* failure of the customers request empties that list, any other failure
\* ends the call
ListLoaded(l, ok) ==
    LET name == ListOrder[loading[l]]
    IN  /\ loading[l] # NotLoading
        /\ IF ok THEN lists' = [lists EXCEPT ![name] = dbRows[name]]
           ELSE IF name = "customers" THEN lists' = [lists EXCEPT ![name] = 0]
           ELSE UNCHANGED lists
        /\ IF ok /\ loading[l] < Len(ListOrder)
           THEN /\ loading' = [loading EXCEPT ![l] = @ + 1]
                /\ UNCHANGED <<create, isSubmitting>>
           ELSE LoadEnded(l)
        /\ UNCHANGED <<dmOpen, forms, dbRows>>

\* ------------------------------------------------------------------------
\* The Amplify provider (AmplifyProvider) and the /api/config route
\* ------------------------------------------------------------------------
ConfigKeys == {"userPoolId", "userPoolClientId", "identityPoolId"}

\* a value as stored upstream: absent, the empty string, or an identifier
ConfigValues == {"undefined", "", "eu-west-1_Example"}

Truthy(v) == v \notin {"undefined", ""}

\* only the user pool is looked at
HasUserPoolId(config) == Truthy(config["userPoolId"])

\* !(!config.userPoolId || !config.userPoolClientId || !config.identityPoolId)
HasRequiredValues(config) == \A k \in ConfigKeys : Truthy(config[k])

NoBackend == [up |-> FALSE, values |-> [k \in ConfigKeys |-> "undefined"]]
NoConfigResponse == [kind |-> "none"]
NoAmplifyConfig == [k \in ConfigKeys |-> "not configured"]
NoConfigError == "null"

\* GET /api/config: 500 when the upstream call fails, else the three values
ConfigRouteGET(b) ==
    IF b.up
    THEN [kind |-> "response", ok |-> TRUE, status |-> 200, body |-> b.values]
    ELSE [kind |-> "response", ok |-> FALSE, status |-> 500,
          body |-> [k \in ConfigKeys |-> "undefined"]]

\* what fetch('/api/config') and response.json() give the provider
FetchOutcomes(b) ==
    {[kind |-> "rejected"], [kind |-> "not json", ok |-> TRUE, status |-> 200],
     ConfigRouteGET(b)}

\* the message of the error configureAmplify throws, or none
ConfigFailure(r) ==
    IF r.kind = "rejected" THEN "Failed to fetch"
    ELSE IF ~r.ok THEN "HTTP error! status: 500"
    ELSE IF r.kind = "not json" THEN "Unexpected token"
    ELSE IF ~HasRequiredValues(r.body) THEN "Missing required configuration values"
    ELSE NoConfigError

\* what the provider renders
Rendered ==
    IF configError # NoConfigError THEN "Configuration Error"
    ELSE IF ~isConfigured THEN "Loading configuration..."
    ELSE "children"

ProvParked ==
    /\ provMounted = FALSE
    /\ backend = NoBackend
    /\ configResponse = NoConfigResponse
    /\ isConfigured = FALSE
    /\ configError = NoConfigError
    /\ amplifyConfig = NoAmplifyConfig

\* the provider is mounted: the effect starts configureAmplify, which awaits
\* the fetch
MountProvider(b) ==
    /\ ~provMounted
    /\ provMounted' = TRUE
    /\ backend' = b
    /\ UNCHANGED <<configResponse, isConfigured, configError, amplifyConfig>>

\* configureAmplify after the fetch
configureAmplify(r) ==
    /\ provMounted
    /\ configResponse = NoConfigResponse
    /\ r \in FetchOutcomes(backend)
    /\ configResponse' = r
    /\ IF ConfigFailure(r) = NoConfigError
       THEN /\ amplifyConfig' = r.body
            /\ isConfigured' = TRUE
            /\ configError' = NoConfigError
       ELSE /\ configError' = ConfigFailure(r)
            /\ UNCHANGED <<amplifyConfig, isConfigured>>
    /\ UNCHANGED <<provMounted, backend>>

\* the page is left
UnmountProvider ==
    /\ provMounted
    /\ provMounted' = FALSE
    /\ backend' = NoBackend
    /\ configResponse' = NoConfigResponse
    /\ isConfigured' = FALSE
    /\ configError' = NoConfigError
    /\ amplifyConfig' = NoAmplifyConfig

\* ------------------------------------------------------------------------
\* Specifications
\* ------------------------------------------------------------------------
GuardInit == GuardParked /\ MigParked /\ RevParked /\ MoneyParked /\ AmountParked /\ EnvParked /\ HomeParked /\ ServerParked /\ SchemaParked /\ DashParked /\ DataParked /\ ProvParked /\ TripParked /\ MarginParked /\ WrapParked
GuardNext ==
    \/ \E f \in Files : Stage(f) /\ UNCHANGED <<migVars, revVars, moneyVars, amountVars, envVars, homeVars, serverVars, schemaVars, dashVars, dataVars, provVars, tripVars, marginVars, wrapVars>>
    \/ \E p \in Packages : AddPackage(p) /\ UNCHANGED <<migVars, revVars, moneyVars, amountVars, envVars, homeVars, serverVars, schemaVars, dashVars, dataVars, provVars, tripVars, marginVars, wrapVars>>
    \/ \E p \in Packages : RemovePackage(p) /\ UNCHANGED <<migVars, revVars, moneyVars, amountVars, envVars, homeVars, serverVars, schemaVars, dashVars, dataVars, provVars, tripVars, marginVars, wrapVars>>
    \/ RunCompatCheck /\ UNCHANGED <<migVars, revVars, moneyVars, amountVars, envVars, homeVars, serverVars, schemaVars, dashVars, dataVars, provVars, tripVars, marginVars, wrapVars>>
    \/ \E h \in BOOLEAN, o \in BOOLEAN : Commit(h, o) /\ UNCHANGED <<migVars, revVars, moneyVars, amountVars, envVars, homeVars, serverVars, schemaVars, dashVars, dataVars, provVars, tripVars, marginVars, wrapVars>>
    \/ NextCommit /\ UNCHANGED <<migVars, revVars, moneyVars, amountVars, envVars, homeVars, serverVars, schemaVars, dashVars, dataVars, provVars, tripVars, marginVars, wrapVars>>
SpecGuard == GuardInit /\ [][GuardNext]_vars

MigInit == MigParked /\ GuardParked /\ RevParked /\ MoneyParked /\ AmountParked /\ EnvParked /\ HomeParked /\ ServerParked /\ SchemaParked /\ DashParked /\ DataParked /\ ProvParked /\ TripParked /\ MarginParked /\ WrapParked
MigNext ==
    \/ \E r \in Revs : GenerateRevision(r) /\ UNCHANGED <<guardVars, revVars, moneyVars, amountVars, envVars, homeVars, serverVars, schemaVars, dashVars, dataVars, provVars, tripVars, marginVars, wrapVars>>
    \/ \E ok \in BOOLEAN : StartRun(ok) /\ UNCHANGED <<guardVars, revVars, moneyVars, amountVars, envVars, homeVars, serverVars, schemaVars, dashVars, dataVars, provVars, tripVars, marginVars, wrapVars>>
    \/ ApplyOp /\ UNCHANGED <<guardVars, revVars, moneyVars, amountVars, envVars, homeVars, serverVars, schemaVars, dashVars, dataVars, provVars, tripVars, marginVars, wrapVars>>
    \/ FinishRevision /\ UNCHANGED <<guardVars, revVars, moneyVars, amountVars, envVars, homeVars, serverVars, schemaVars, dashVars, dataVars, provVars, tripVars, marginVars, wrapVars>>
    \/ FailOp /\ UNCHANGED <<guardVars, revVars, moneyVars, amountVars, envVars, homeVars, serverVars, schemaVars, dashVars, dataVars, provVars, tripVars, marginVars, wrapVars>>
    \/ FinishRun /\ UNCHANGED <<guardVars, revVars, moneyVars, amountVars, envVars, homeVars, serverVars, schemaVars, dashVars, dataVars, provVars, tripVars, marginVars, wrapVars>>
SpecMigrate == MigInit /\ [][MigNext]_vars

RevInit == RevParked /\ GuardParked /\ MigParked /\ MoneyParked /\ AmountParked /\ EnvParked /\ HomeParked /\ ServerParked /\ SchemaParked /\ DashParked /\ DataParked /\ ProvParked /\ TripParked /\ MarginParked /\ WrapParked
RevNext ==
    \/ \E b \in BatchIds : InsertBatch(b) /\ UNCHANGED <<guardVars, migVars, moneyVars, amountVars, envVars, homeVars, serverVars, schemaVars, dashVars, dataVars, provVars, tripVars, marginVars, wrapVars>>
    \/ \E w \in WineIds : InsertWine(w) /\ UNCHANGED <<guardVars, migVars, moneyVars, amountVars, envVars, homeVars, serverVars, schemaVars, dashVars, dataVars, provVars, tripVars, marginVars, wrapVars>>
    \/ \E i \in InventoryIds, w \in WineIds, c \in Amounts, p \in Amounts :
          InsertInventory(i, w, c, p) /\ UNCHANGED <<guardVars, migVars, moneyVars, amountVars, envVars, homeVars, serverVars, schemaVars, dashVars, dataVars, provVars, tripVars, marginVars, wrapVars>>
    \/ \E i \in InventoryIds, c \in Amounts, p \in Amounts :
          UpdateInventory(i, c, p) /\ UNCHANGED <<guardVars, migVars, moneyVars, amountVars, envVars, homeVars, serverVars, schemaVars, dashVars, dataVars, provVars, tripVars, marginVars, wrapVars>>
    \/ BeginUpgrade /\ UNCHANGED <<guardVars, migVars, moneyVars, amountVars, envVars, homeVars, serverVars, schemaVars, dashVars, dataVars, provVars, tripVars, marginVars, wrapVars>>
    \/ BeginDowngrade /\ UNCHANGED <<guardVars, migVars, moneyVars, amountVars, envVars, homeVars, serverVars, schemaVars, dashVars, dataVars, provVars, tripVars, marginVars, wrapVars>>
    \/ StepOk /\ UNCHANGED <<guardVars, migVars, moneyVars, amountVars, envVars, homeVars, serverVars, schemaVars, dashVars, dataVars, provVars, tripVars, marginVars, wrapVars>>
    \/ StepFail /\ UNCHANGED <<guardVars, migVars, moneyVars, amountVars, envVars, homeVars, serverVars, schemaVars, dashVars, dataVars, provVars, tripVars, marginVars, wrapVars>>
    \/ FinishMigration /\ UNCHANGED <<guardVars, migVars, moneyVars, amountVars, envVars, homeVars, serverVars, schemaVars, dashVars, dataVars, provVars, tripVars, marginVars, wrapVars>>
    \/ \E c \in CostIds, b \in BatchIds :
          InsertBatchCost(c, b) /\ UNCHANGED <<guardVars, migVars, moneyVars, amountVars, envVars, homeVars, serverVars, schemaVars, dashVars, dataVars, provVars, tripVars, marginVars, wrapVars>>
    \/ \E b \in BatchIds : DeleteBatch(b) /\ UNCHANGED <<guardVars, migVars, moneyVars, amountVars, envVars, homeVars, serverVars, schemaVars, dashVars, dataVars, provVars, tripVars, marginVars, wrapVars>>
SpecRevision == RevInit /\ [][RevNext]_vars

MoneyInit == MoneyParked /\ GuardParked /\ MigParked /\ RevParked /\ AmountParked /\ EnvParked /\ HomeParked /\ ServerParked /\ SchemaParked /\ DashParked /\ DataParked /\ ProvParked /\ TripParked /\ MarginParked /\ WrapParked
MoneyNext ==
    \/ \E f \in TextFields, v \in Texts :
          SetText(f, v) /\ UNCHANGED <<guardVars, migVars, revVars, amountVars, envVars, homeVars, serverVars, schemaVars, dashVars, dataVars, provVars, tripVars, marginVars, wrapVars>>
    \/ \E f \in NumberFields, v \in NumberStrings :
          SetNumber(f, v) /\ UNCHANGED <<guardVars, migVars, revVars, amountVars, envVars, homeVars, serverVars, schemaVars, dashVars, dataVars, provVars, tripVars, marginVars, wrapVars>>
    \/ \E stored \in BOOLEAN :
          createWineBatch(stored) /\ UNCHANGED <<guardVars, migVars, revVars, amountVars, envVars, homeVars, serverVars, schemaVars, dashVars, dataVars, provVars, tripVars, marginVars, wrapVars>>
SpecMoney == MoneyInit /\ [][MoneyNext]_vars

AmountInit == AmountParked /\ GuardParked /\ MigParked /\ RevParked /\ MoneyParked /\ EnvParked /\ HomeParked /\ ServerParked /\ SchemaParked /\ DashParked /\ DataParked /\ ProvParked /\ TripParked /\ MarginParked /\ WrapParked
AmountNext ==
    \/ \E str \in Strings :
          ParseNOK(str) /\ UNCHANGED <<guardVars, migVars, revVars, moneyVars, envVars, homeVars, serverVars, schemaVars, dashVars, dataVars, provVars, tripVars, marginVars, wrapVars>>
    \/ \E str \in Strings :
          ParseEUR(str) /\ UNCHANGED <<guardVars, migVars, revVars, moneyVars, envVars, homeVars, serverVars, schemaVars, dashVars, dataVars, provVars, tripVars, marginVars, wrapVars>>
SpecAmount == AmountInit /\ [][AmountNext]_vars

EnvInit == EnvParked /\ GuardParked /\ MigParked /\ RevParked /\ MoneyParked /\ AmountParked /\ HomeParked /\ ServerParked /\ SchemaParked /\ DashParked /\ DataParked /\ ProvParked /\ TripParked /\ MarginParked /\ WrapParked
EnvNext ==
    \/ \E a \in AmplifyEnvs, b \in Branches, f \in FunctionNames :
          StartProcess(a, b, f)
          /\ UNCHANGED <<guardVars, migVars, revVars, moneyVars, amountVars, homeVars, serverVars, schemaVars, dashVars, dataVars, provVars, tripVars, marginVars, wrapVars>>
    \/ \E failing \in SUBSET Keys :
          run_migrations_online(failing)
          /\ UNCHANGED <<guardVars, migVars, revVars, moneyVars, amountVars, homeVars, serverVars, schemaVars, dashVars, dataVars, provVars, tripVars, marginVars, wrapVars>>
SpecEnv == EnvInit /\ [][EnvNext]_vars

HomeInit == HomeParked /\ GuardParked /\ MigParked /\ RevParked /\ MoneyParked /\ AmountParked /\ EnvParked /\ ServerParked /\ SchemaParked /\ DashParked /\ DataParked /\ ProvParked /\ TripParked /\ MarginParked /\ WrapParked
HomeNext ==
    \/ \E h \in Hostnames, o \in Outputs :
          OpenPage(h, o) /\ UNCHANGED <<guardVars, migVars, revVars, moneyVars, amountVars, envVars, serverVars, schemaVars, dashVars, dataVars, provVars, tripVars, marginVars, wrapVars>>
    \/ Rerender /\ UNCHANGED <<guardVars, migVars, revVars, moneyVars, amountVars, envVars, serverVars, schemaVars, dashVars, dataVars, provVars, tripVars, marginVars, wrapVars>>
    \/ \E path \in FetchPaths :
          ClickFetch(path) /\ UNCHANGED <<guardVars, migVars, revVars, moneyVars, amountVars, envVars, serverVars, schemaVars, dashVars, dataVars, provVars, tripVars, marginVars, wrapVars>>
    \/ ClosePage /\ UNCHANGED <<guardVars, migVars, revVars, moneyVars, amountVars, envVars, serverVars, schemaVars, dashVars, dataVars, provVars, tripVars, marginVars, wrapVars>>
SpecHome == HomeInit /\ [][HomeNext]_vars

ServerInit == ServerParked /\ GuardParked /\ MigParked /\ RevParked /\ MoneyParked /\ AmountParked /\ EnvParked /\ HomeParked /\ SchemaParked /\ DashParked /\ DataParked /\ ProvParked /\ TripParked /\ MarginParked /\ WrapParked
ServerNext ==
    \/ \E r \in RequestIds, method \in Methods, path \in RequestPaths, body \in {"{}"} :
          HandleRequest(r, method, path, body) /\ UNCHANGED <<guardVars, migVars, revVars, moneyVars, amountVars, envVars, homeVars, schemaVars, dashVars, dataVars, provVars, tripVars, marginVars, wrapVars>>
    \/ \E r \in RequestIds : PythonLoadsEvent(r) /\ UNCHANGED <<guardVars, migVars, revVars, moneyVars, amountVars, envVars, homeVars, schemaVars, dashVars, dataVars, provVars, tripVars, marginVars, wrapVars>>
    \/ \E r \in RequestIds, failed \in BOOLEAN :
          ExecCallback(r, failed) /\ UNCHANGED <<guardVars, migVars, revVars, moneyVars, amountVars, envVars, homeVars, schemaVars, dashVars, dataVars, provVars, tripVars, marginVars, wrapVars>>
    \/ \E r \in RequestIds : NotFound(r) /\ UNCHANGED <<guardVars, migVars, revVars, moneyVars, amountVars, envVars, homeVars, schemaVars, dashVars, dataVars, provVars, tripVars, marginVars, wrapVars>>
    \/ \E r \in RequestIds : CloseRequest(r) /\ UNCHANGED <<guardVars, migVars, revVars, moneyVars, amountVars, envVars, homeVars, schemaVars, dashVars, dataVars, provVars, tripVars, marginVars, wrapVars>>
SpecServer == ServerInit /\ [][ServerNext]_vars

SchemaInit == SchemaParked /\ GuardParked /\ MigParked /\ RevParked /\ MoneyParked /\ AmountParked /\ EnvParked /\ HomeParked /\ ServerParked /\ DashParked /\ DataParked /\ ProvParked /\ TripParked /\ MarginParked /\ WrapParked
SchemaNext ==
    \/ \E c \in CheckIds : MountDashboard(c) /\ UNCHANGED <<guardVars, migVars, revVars, moneyVars, amountVars, envVars, homeVars, serverVars, dashVars, dataVars, provVars, tripVars, marginVars, wrapVars>>
    \/ \E c \in CheckIds : ClickRefreshSchema(c) /\ UNCHANGED <<guardVars, migVars, revVars, moneyVars, amountVars, envVars, homeVars, serverVars, dashVars, dataVars, provVars, tripVars, marginVars, wrapVars>>
    \/ \E c \in CheckIds, response \in SchemaResponses :
          TableChecked(c, response) /\ UNCHANGED <<guardVars, migVars, revVars, moneyVars, amountVars, envVars, homeVars, serverVars, dashVars, dataVars, provVars, tripVars, marginVars, wrapVars>>
    \/ runMigration /\ UNCHANGED <<guardVars, migVars, revVars, moneyVars, amountVars, envVars, homeVars, serverVars, dashVars, dataVars, provVars, tripVars, marginVars, wrapVars>>
    \/ \E ok \in BOOLEAN : MigrationSettled(ok) /\ UNCHANGED <<guardVars, migVars, revVars, moneyVars, amountVars, envVars, homeVars, serverVars, dashVars, dataVars, provVars, tripVars, marginVars, wrapVars>>
    \/ \E c \in CheckIds : RecheckTimerFires(c) /\ UNCHANGED <<guardVars, migVars, revVars, moneyVars, amountVars, envVars, homeVars, serverVars, dashVars, dataVars, provVars, tripVars, marginVars, wrapVars>>
SpecSchema == SchemaInit /\ [][SchemaNext]_vars

DashInit == DashParked /\ GuardParked /\ MigParked /\ RevParked /\ MoneyParked /\ AmountParked /\ EnvParked /\ HomeParked /\ ServerParked /\ SchemaParked /\ DataParked /\ ProvParked /\ TripParked /\ MarginParked /\ WrapParked
DashNext ==
    \/ \E name \in EndpointNames : runTest(name) /\ UNCHANGED <<guardVars, migVars, revVars, moneyVars, amountVars, envVars, homeVars, serverVars, schemaVars, dataVars, provVars, tripVars, marginVars, wrapVars>>
    \/ \E k \in PendingKinds, ok \in BOOLEAN : TestSettled(k, ok) /\ UNCHANGED <<guardVars, migVars, revVars, moneyVars, amountVars, envVars, homeVars, serverVars, schemaVars, dataVars, provVars, tripVars, marginVars, wrapVars>>
    \/ runAllTests /\ UNCHANGED <<guardVars, migVars, revVars, moneyVars, amountVars, envVars, homeVars, serverVars, schemaVars, dataVars, provVars, tripVars, marginVars, wrapVars>>
    \/ \E ok \in BOOLEAN : RunTestSettled(ok) /\ UNCHANGED <<guardVars, migVars, revVars, moneyVars, amountVars, envVars, homeVars, serverVars, schemaVars, dataVars, provVars, tripVars, marginVars, wrapVars>>
    \/ DelayElapsed /\ UNCHANGED <<guardVars, migVars, revVars, moneyVars, amountVars, envVars, homeVars, serverVars, schemaVars, dataVars, provVars, tripVars, marginVars, wrapVars>>
    \/ clearResults /\ UNCHANGED <<guardVars, migVars, revVars, moneyVars, amountVars, envVars, homeVars, serverVars, schemaVars, dataVars, provVars, tripVars, marginVars, wrapVars>>
SpecDash == DashInit /\ [][DashNext]_vars

\* every API call settles and every timer fires
SpecDashLive ==
    /\ SpecDash
    /\ WF_dashVars(\E ok \in BOOLEAN : RunTestSettled(ok))
    /\ WF_dashVars(DelayElapsed)

\* the schema check on its own: no migration is run, so every check runs
\* uninterrupted from its first table to its last
SchemaRunInit == SchemaParked /\ GuardParked /\ MigParked /\ RevParked /\ MoneyParked /\ AmountParked /\ EnvParked /\ HomeParked /\ ServerParked /\ DashParked /\ DataParked /\ ProvParked /\ TripParked /\ MarginParked /\ WrapParked
SchemaRunNext ==
    \/ \E c \in CheckIds : MountDashboard(c) /\ UNCHANGED <<guardVars, migVars, revVars, moneyVars, amountVars, envVars, homeVars, serverVars, dashVars, dataVars, provVars, tripVars, marginVars, wrapVars>>
    \/ \E c \in CheckIds : ClickRefreshSchema(c) /\ UNCHANGED <<guardVars, migVars, revVars, moneyVars, amountVars, envVars, homeVars, serverVars, dashVars, dataVars, provVars, tripVars, marginVars, wrapVars>>
    \/ \E c \in CheckIds, response \in SchemaResponses :
          TableChecked(c, response) /\ UNCHANGED <<guardVars, migVars, revVars, moneyVars, amountVars, envVars, homeVars, serverVars, dashVars, dataVars, provVars, tripVars, marginVars, wrapVars>>
SpecSchemaRun == SchemaRunInit /\ [][SchemaRunNext]_vars

DataInit == DataParked /\ GuardParked /\ MigParked /\ RevParked /\ MoneyParked /\ AmountParked /\ EnvParked /\ HomeParked /\ ServerParked /\ SchemaParked /\ DashParked /\ ProvParked /\ TripParked /\ MarginParked /\ WrapParked
DataNext ==
    \/ OpenDataManagement /\ UNCHANGED <<guardVars, migVars, revVars, moneyVars, amountVars, envVars, homeVars, serverVars, schemaVars, dashVars, provVars, tripVars, marginVars, wrapVars>>
    \/ \E f \in FormNames, value \in {"initial", "entered"} :
          EditForm(f, value) /\ UNCHANGED <<guardVars, migVars, revVars, moneyVars, amountVars, envVars, homeVars, serverVars, schemaVars, dashVars, provVars, tripVars, marginVars, wrapVars>>
    \/ \E f \in FormNames : CreateClicked(f) /\ UNCHANGED <<guardVars, migVars, revVars, moneyVars, amountVars, envVars, homeVars, serverVars, schemaVars, dashVars, provVars, tripVars, marginVars, wrapVars>>
    \/ \E result \in CreateOutcomes : CreateSettled(result) /\ UNCHANGED <<guardVars, migVars, revVars, moneyVars, amountVars, envVars, homeVars, serverVars, schemaVars, dashVars, provVars, tripVars, marginVars, wrapVars>>
    \/ \E l \in Loaders, ok \in BOOLEAN : ListLoaded(l, ok) /\ UNCHANGED <<guardVars, migVars, revVars, moneyVars, amountVars, envVars, homeVars, serverVars, schemaVars, dashVars, provVars, tripVars, marginVars, wrapVars>>
SpecData == DataInit /\ [][DataNext]_vars

ProvInit == ProvParked /\ GuardParked /\ MigParked /\ RevParked /\ MoneyParked /\ AmountParked /\ EnvParked /\ HomeParked /\ ServerParked /\ SchemaParked /\ DashParked /\ DataParked /\ TripParked /\ MarginParked /\ WrapParked
ProvNext ==
    \/ \E up \in BOOLEAN, values \in [ConfigKeys -> ConfigValues] :
          MountProvider([up |-> up, values |-> values]) /\ UNCHANGED <<guardVars, migVars, revVars, moneyVars, amountVars, envVars, homeVars, serverVars, schemaVars, dashVars, dataVars, tripVars, marginVars, wrapVars>>
    \/ \E r \in FetchOutcomes(backend) : configureAmplify(r) /\ UNCHANGED <<guardVars, migVars, revVars, moneyVars, amountVars, envVars, homeVars, serverVars, schemaVars, dashVars, dataVars, tripVars, marginVars, wrapVars>>
    \/ UnmountProvider /\ UNCHANGED <<guardVars, migVars, revVars, moneyVars, amountVars, envVars, homeVars, serverVars, schemaVars, dashVars, dataVars, tripVars, marginVars, wrapVars>>
SpecProv == ProvInit /\ [][ProvNext]_vars

\* the server handling one request at a time
DispatchInit == ServerParked /\ GuardParked /\ MigParked /\ RevParked /\ MoneyParked /\ AmountParked /\ EnvParked /\ HomeParked /\ SchemaParked /\ DashParked /\ DataParked /\ ProvParked /\ TripParked /\ MarginParked /\ WrapParked
DispatchNext ==
    \/ \E method \in Methods, path \in RequestPaths, body \in {"{}"} :
          HandleRequest(1, method, path, body) /\ UNCHANGED <<guardVars, migVars, revVars, moneyVars, amountVars, envVars, homeVars, schemaVars, dashVars, dataVars, provVars, tripVars, marginVars, wrapVars>>
    \/ PythonLoadsEvent(1) /\ UNCHANGED <<guardVars, migVars, revVars, moneyVars, amountVars, envVars, homeVars, schemaVars, dashVars, dataVars, provVars, tripVars, marginVars, wrapVars>>
    \/ \E failed \in BOOLEAN : ExecCallback(1, failed) /\ UNCHANGED <<guardVars, migVars, revVars, moneyVars, amountVars, envVars, homeVars, schemaVars, dashVars, dataVars, provVars, tripVars, marginVars, wrapVars>>
    \/ NotFound(1) /\ UNCHANGED <<guardVars, migVars, revVars, moneyVars, amountVars, envVars, homeVars, schemaVars, dashVars, dataVars, provVars, tripVars, marginVars, wrapVars>>
    \/ CloseRequest(1) /\ UNCHANGED <<guardVars, migVars, revVars, moneyVars, amountVars, envVars, homeVars, schemaVars, dashVars, dataVars, provVars, tripVars, marginVars, wrapVars>>
SpecDispatch == DispatchInit /\ [][DispatchNext]_vars

\* the migration scripts step by step, over a wine_batches table with or
\* without rows
RevStepsInit == RevParked /\ GuardParked /\ MigParked /\ MoneyParked /\ AmountParked /\ EnvParked /\ HomeParked /\ ServerParked /\ SchemaParked /\ DashParked /\ DataParked /\ ProvParked /\ TripParked /\ MarginParked /\ WrapParked
RevStepsNext ==
    \/ \E b \in BatchIds : InsertBatch(b) /\ UNCHANGED <<guardVars, migVars, moneyVars, amountVars, envVars, homeVars, serverVars, schemaVars, dashVars, dataVars, provVars, tripVars, marginVars, wrapVars>>
    \/ \E b \in BatchIds : DeleteBatch(b) /\ UNCHANGED <<guardVars, migVars, moneyVars, amountVars, envVars, homeVars, serverVars, schemaVars, dashVars, dataVars, provVars, tripVars, marginVars, wrapVars>>
    \/ \E w \in WineIds : InsertWine(w) /\ UNCHANGED <<guardVars, migVars, moneyVars, amountVars, envVars, homeVars, serverVars, schemaVars, dashVars, dataVars, provVars, tripVars, marginVars, wrapVars>>
    \/ \E c \in CostIds, b \in BatchIds : InsertBatchCost(c, b) /\ UNCHANGED <<guardVars, migVars, moneyVars, amountVars, envVars, homeVars, serverVars, schemaVars, dashVars, dataVars, provVars, tripVars, marginVars, wrapVars>>
    \/ BeginUpgrade /\ UNCHANGED <<guardVars, migVars, moneyVars, amountVars, envVars, homeVars, serverVars, schemaVars, dashVars, dataVars, provVars, tripVars, marginVars, wrapVars>>
    \/ BeginDowngrade /\ UNCHANGED <<guardVars, migVars, moneyVars, amountVars, envVars, homeVars, serverVars, schemaVars, dashVars, dataVars, provVars, tripVars, marginVars, wrapVars>>
    \/ StepOk /\ UNCHANGED <<guardVars, migVars, moneyVars, amountVars, envVars, homeVars, serverVars, schemaVars, dashVars, dataVars, provVars, tripVars, marginVars, wrapVars>>
    \/ StepFail /\ UNCHANGED <<guardVars, migVars, moneyVars, amountVars, envVars, homeVars, serverVars, schemaVars, dashVars, dataVars, provVars, tripVars, marginVars, wrapVars>>
    \/ FinishMigration /\ UNCHANGED <<guardVars, migVars, moneyVars, amountVars, envVars, homeVars, serverVars, schemaVars, dashVars, dataVars, provVars, tripVars, marginVars, wrapVars>>
SpecRevSteps == RevStepsInit /\ [][RevStepsNext]_vars

TripInit == TripParked /\ GuardParked /\ MigParked /\ RevParked /\ MoneyParked /\ AmountParked /\ EnvParked /\ HomeParked /\ ServerParked /\ SchemaParked /\ DashParked /\ DataParked /\ ProvParked /\ MarginParked /\ WrapParked
TripNext ==
    \/ \E locale \in Locales, ore \in OreAmounts : DisplayAndParseNOK(locale, ore) /\ UNCHANGED <<guardVars, migVars, revVars, moneyVars, amountVars, envVars, homeVars, serverVars, schemaVars, dashVars, dataVars, provVars, marginVars, wrapVars>>
    \/ \E locale \in Locales, cents \in OreAmounts : DisplayAndParseEUR(locale, cents) /\ UNCHANGED <<guardVars, migVars, revVars, moneyVars, amountVars, envVars, homeVars, serverVars, schemaVars, dashVars, dataVars, provVars, marginVars, wrapVars>>
SpecTrip == TripInit /\ [][TripNext]_vars

MarginInit == MarginParked /\ GuardParked /\ MigParked /\ RevParked /\ MoneyParked /\ AmountParked /\ EnvParked /\ HomeParked /\ ServerParked /\ SchemaParked /\ DashParked /\ DataParked /\ ProvParked /\ TripParked /\ WrapParked
MarginNext ==
    \/ \E cost \in Prices, price \in Prices : ComputeMargin(cost, price) /\ UNCHANGED <<guardVars, migVars, revVars, moneyVars, amountVars, envVars, homeVars, serverVars, schemaVars, dashVars, dataVars, provVars, tripVars, wrapVars>>
    \/ \E cost \in Prices, price \in Prices : ComputeMarkup(cost, price) /\ UNCHANGED <<guardVars, migVars, revVars, moneyVars, amountVars, envVars, homeVars, serverVars, schemaVars, dashVars, dataVars, provVars, tripVars, wrapVars>>
SpecMargin == MarginInit /\ [][MarginNext]_vars

WrapInit == WrapParked /\ GuardParked /\ MigParked /\ RevParked /\ MoneyParked /\ AmountParked /\ EnvParked /\ HomeParked /\ ServerParked /\ SchemaParked /\ DashParked /\ DataParked /\ ProvParked /\ TripParked /\ MarginParked
WrapNext ==
    \/ \E result \in Runs : upgrade_database(result) /\ UNCHANGED <<guardVars, migVars, revVars, moneyVars, amountVars, envVars, homeVars, serverVars, schemaVars, dashVars, dataVars, provVars, tripVars, marginVars>>
    \/ \E result \in Runs : current_revision(result) /\ UNCHANGED <<guardVars, migVars, revVars, moneyVars, amountVars, envVars, homeVars, serverVars, schemaVars, dashVars, dataVars, provVars, tripVars, marginVars>>
    \/ \E result \in Runs : migration_history(result) /\ UNCHANGED <<guardVars, migVars, revVars, moneyVars, amountVars, envVars, homeVars, serverVars, schemaVars, dashVars, dataVars, provVars, tripVars, marginVars>>
SpecWrap == WrapInit /\ [][WrapNext]_vars

\* ------------------------------------------------------------------------
\* Claims about the upgrade run
\* ------------------------------------------------------------------------
OpsOf(r) == { <<r, op>> : op \in 1..OpsPerRev }

\* C2: after an upgrade run in which a revision's upgrade() raised,
\* alembic_version holds what it held before the run, it names neither the
\* failing revision nor any revision of the run, and no operation of the
\* failing revision is in the schema.
C2_FailedApplyLeavesVersion ==
    mpc = "failed"
    => /\ dbVersion = startVersion
       /\ dbVersion # failedRev
       /\ OpsOf(failedRev) \cap dbSchema = {}

C2_Witness ==
    /\ mpc = "failed"
    /\ failedAt >= 1
    /\ dbVersion = startVersion
    /\ startVersion # NoRev

\* C3: an upgrade to head from the empty schema that succeeds has applied
\* every revision of the chain exactly once, each after its down_revision,
\* and leaves alembic_version at the last revision of the chain.
C3_UpgradeFromEmptyInChainOrder ==
    (mpc = "success" /\ startVersion = NoRev /\ startSchema = {})
    => LET n == Len(applied) IN
       /\ n = Cardinality(runScripts)
       /\ \A i \in 1..n :
             /\ applied[i] \in Revisions(runScripts)
             /\ DownRevision(runScripts, applied[i])
                  = (IF i = 1 THEN NoRev ELSE applied[i - 1])
       /\ \A i, j \in 1..n : i # j => applied[i] # applied[j]
       /\ dbVersion = (IF n = 0 THEN NoRev ELSE applied[n])
       /\ \A s \in runScripts : s.down_revision # dbVersion
       /\ dbSchema = UNION { OpsOf(r) : r \in Revisions(runScripts) }

C3_Witness ==
    /\ mpc = "success"
    /\ startVersion = NoRev
    /\ Len(applied) >= 3
    /\ applied[1] > applied[2]
    /\ dbVersion = applied[Len(applied)]

C5_RoundTripRestoresSchema ==
    rLast \in {"downgraded", "downgrade_failed"} =>
        /\ rCommitted.tables = rPre.tables
        /\ \A t \in TableNames : rCommitted.columns[t] = rPre.columns[t]

\* C6: every wine_inventory row carries a margin that the database derived,
\* equal to selling_price_ore minus cost_per_bottle_ore, after any sequence
\* of inserts and updates.
C6_MarginDerivedByDatabase ==
    \A i \in DOMAIN inventory :
        /\ "margin_ore" \in DOMAIN inventory[i]
        /\ inventory[i]["margin_ore"] =
              inventory[i]["selling_price_ore"] - inventory[i]["cost_per_bottle_ore"]

\* ------------------------------------------------------------------------
\* Claims about monetary amounts

\* C7: every stored monetary field is a non-negative integer after any
\* sequence of creates, whatever was typed into the form.
C7_MonetaryFieldsNonNegative ==
    \A i \in 1..Len(wineBatches) :
        \A f \in MonetaryFields : wineBatches[i][f] \in Nat

\* C7, the amount parsers: every amount parseNOKInput / parseEURInput
\* produce is a non-negative integer.
C7_ParsedAmountsNonNegative == parsed.out \in Nat

\* ------------------------------------------------------------------------
\* Claims about the guard and the compatibility checker
\* ------------------------------------------------------------------------
ModelFileChanged(fs) == \E f \in fs : f.kind = "model"
ManifestChanged(fs) == \E f \in fs : f.kind \in {"requirements", "pyproject"}
ListsBlocked(pkgs) ==
    pkgs \cap {"pydantic-core", "psycopg2", "lxml", "mysqlclient"} # {}

\* C1: a commit whose model files add a class, column, relationship or
\* table name and that holds no migration file is answered "blocked" and
\* is not let through.
C1_ModelOnlyBlocked ==
    (gphase = "done"
        /\ (\E f \in changed : f.kind = "model" /\ f.change # "comment")
        /\ ~(\E f \in changed : f.kind = "migration"))
    => (outcome = "blocked" /\ ~commitAllowed)

C1_Witness ==
    /\ gphase = "done"
    /\ changed = {[kind |-> "model", change |-> "column"]}
    /\ outcome = "blocked"
    /\ ~commitAllowed

C10_FailsIffBlocked ==
    checkResult # "none"
    => /\ (checkResult = "fail" <=> (\E e \in report : e.classification = "blocked"))
       /\ ((\A e \in report :
                e.package \in {"numpy", "pandas", "pillow", "cryptography"})
            => checkResult = "pass")

C10_Witness ==
    /\ checkResult = "pass"
    /\ report # {}
    /\ \A e \in report : e.package \in {"numpy", "pandas", "pillow", "cryptography"}

\* C11: once the checker has run on a manifest, every blocked package the
\* manifest lists has a report entry with that package, classification
\* "blocked" and the replacement the guide names for it; psycopg2 is reported
\* as blocked with suggested replacement psycopg2-binary.
C11_BlockedReportedWithReplacement ==
    checkResult # "none"
    => \A p \in manifest \cap {"pydantic-core", "psycopg2", "lxml", "mysqlclient"} :
          \E e \in report :
              /\ e.package = p
              /\ e.classification = "blocked"
              /\ e.suggested_replacement =
                    (CASE p = "pydantic-core" -> "pydantic v1.x"
                       [] p = "psycopg2" -> "psycopg2-binary"
                       [] p = "lxml" -> "xml.etree.ElementTree"
                       [] p = "mysqlclient" -> "PyMySQL")

C11_Witness ==
    /\ checkResult = "fail"
    /\ "psycopg2" \in manifest
    /\ [package |-> "psycopg2", classification |-> "blocked",
        suggested_replacement |-> "psycopg2-binary"] \in report

\* ------------------------------------------------------------------------
\* Claims about environment resolution

\* C12: a run whose signals say sandbox/test and a run whose signals say
\* production, against the same parameter store, connect to different
\* databases.
C12_EnvironmentsConnectToDifferentTargets ==
    (urlOf["test"] # NoConnection /\ urlOf["prod"] # NoConnection)
    => urlOf["test"] # urlOf["prod"]

C14_DeleteCascadesToLineItems ==
    /\ \A c \in DOMAIN batchCosts : batchCosts[c] \in batchRows
    /\ lastDelete # "rejected"

\* ------------------------------------------------------------------------
\* Claims about the home page

\* C15: served from localhost or 127.0.0.1 the page calls the local API URL
\* only; served from any other host it calls the API endpoint of the Amplify
\* outputs only.
C15_ApiUrlFollowsHost ==
    \A c \in calls :
        IF hostname \in {"localhost", "127.0.0.1"}
        THEN c.url = "http://localhost:3001"
        ELSE /\ "api" \in DOMAIN outputs
             /\ \E i \in 1..Len(outputs.api) :
                   /\ "apiEndpoint" \in DOMAIN outputs.api[i]
                   /\ c.url = outputs.api[i].apiEndpoint

\* ------------------------------------------------------------------------
\* Claims about the local API server

\* C16: the response of a request that reached the Lambda is the result
\* computed from that request's own event, and the Python process of a
\* request reads the event that request wrote.
C16_ResponseFromOwnEvent ==
    \A r \in RequestIds :
        /\ inflight[r].pc \in {"loaded", "responded"} /\ inflight[r].event # NoEvent
           => inflight[r].read = inflight[r].event
        /\ (inflight[r].pc = "responded" /\ responses[r].statusCode = 200)
           => responses[r] = LambdaResult(inflight[r].event)

\* ------------------------------------------------------------------------
\* Claims about the database dashboard

\* C17: migrationStatus holds at most one entry per table in every
\* reachable state, also when the re-check scheduled by runMigration
\* overlaps a schema check that is still running.
C17_OneEntryPerTable ==
    \A i, j \in DOMAIN migrationStatus :
        migrationStatus[i].table = migrationStatus[j].table => i = j

\* ------------------------------------------------------------------------
\* Claims about the developer dashboard

\* C18: after clearResults, or the reset at the start of runAllTests, the
\* result list holds no result of a test started before the clear.
C18_NoResultFromBeforeClear ==
    \A i \in DOMAIN testResults : ~testResults[i].startedBeforeClear

\* C19: testResults holds at most one entry per endpoint name, whatever
\* the interleaving of runTest, runAllTests and clearResults.
C19_OneEntryPerEndpoint ==
    \A i, j \in DOMAIN testResults :
        testResults[i].endpoint = testResults[j].endpoint => i = j

\* a call for an endpoint is pending while the list already holds the
\* result of a call for the same endpoint that settled after it started
C19_Witness ==
    \E k \in PendingKinds :
        /\ pendingTests[k] > 0
        /\ \E i \in DOMAIN testResults :
              /\ testResults[i].endpoint = k.endpoint
              /\ testResults[i].status # "loading"

\* C20: a run of runAllTests tests the endpoints one after the other in
\* list order, each test settled before the next starts, a failed test
\* included; isRunningTests is true exactly while the run lasts; and when
\* every call settles the run ends with every endpoint tested once.
C20_RunAllTestsCompletes ==
    /\ [](isRunningTests <=> run.phase # "idle")
    /\ [][run.tested' # run.tested =>
             /\ run.phase \in {"idle", "delay"}
             /\ run.tested' = SubSeq(endpoints, 1, Len(run.tested'))
             /\ Len(run.tested') = IF run.phase = "idle" THEN 1 ELSE Len(run.tested) + 1]_vars
    /\ (run.phase # "idle") ~>
          (run.phase = "idle" /\ ~isRunningTests /\ run.tested = endpoints)

C20_Witness ==
    /\ run.phase = "idle"
    /\ ~isRunningTests
    /\ run.tested = endpoints
    /\ run.failed

\* C21: 'Up to Date' is shown, and Run Migration is disabled as 'No
\* Migration Needed', only when every expected table has been checked and
\* has status 'complete'.
C21_UpToDateOnlyWhenAllComplete ==
    (/\ dbMounted
     /\ \/ MigrationStatusLabel = "Up to Date"
        \/ (RunMigrationDisabled /\ RunMigrationLabel = "No Migration Needed"))
    => \A t \in 1..Len(expectedSchema) :
          \E i \in DOMAIN migrationStatus :
              /\ migrationStatus[i].table = expectedSchema[t]
              /\ migrationStatus[i].status = "complete"

\* C22: a successful query records 'complete'; a failure whose message
\* contains 'does not exist' or '42P01' records 'missing' with exists
\* false; any other failure records 'partial' with exists true; an
\* uninterrupted run records one entry per expected table, in list order,
\* and then sets isCheckingSchema back to false.
C22_ClassifiedInListOrder ==
    /\ \A i \in DOMAIN migrationStatus :
          LET e == migrationStatus[i]
              missing == \/ Includes(e.response.message, "does not exist")
                         \/ Includes(e.response.message, "42P01")
          IN  /\ e.table = expectedSchema[i]
              /\ e.response.ok => (e.status = "complete" /\ e.exists)
              /\ (~e.response.ok /\ missing) => (e.status = "missing" /\ ~e.exists)
              /\ (~e.response.ok /\ ~missing) => (e.status = "partial" /\ e.exists)
    /\ \A c \in CheckIds :
          checks[c] # NotRunning =>
              (isCheckingSchema /\ Len(migrationStatus) = checks[c] - 1)
    /\ (dbMounted /\ \A c \in CheckIds : checks[c] = NotRunning) =>
          (~isCheckingSchema /\ Len(migrationStatus) = Len(expectedSchema))

C22_Witness ==
    /\ dbMounted
    /\ \A c \in CheckIds : checks[c] = NotRunning
    /\ Len(migrationStatus) = Len(expectedSchema)
    /\ \E i \in DOMAIN migrationStatus : migrationStatus[i].status = "missing"
    /\ \E i \in DOMAIN migrationStatus : migrationStatus[i].status # "missing"

\* ------------------------------------------------------------------------
\* Claims about the data management page

\* C23: when a create request fails the form keeps the user's values, the
\* lists are unchanged and isSubmitting is false again; the create
\* handlers reset a form only after a successful create, and the lists
\* change only in a loadData call, which after the mount only a successful
\* create starts.
C23_FailedCreateKeepsForm ==
    [][/\ (create.pc = "posting" /\ create'.last = "failed") =>
             (forms' = forms /\ lists' = lists /\ ~isSubmitting' /\ loading' = loading)
       /\ (create' # create /\ forms' # forms) =>
             /\ create.pc = "posting" /\ create'.pc = "reloading"
             /\ forms' = [forms EXCEPT ![create.form] = "initial"]
             /\ dbRows'[create.form] = dbRows[create.form] + 1
       /\ (loading["create"] = NotLoading /\ loading'["create"] # NotLoading) =>
             (create.pc = "posting" /\ create'.pc = "reloading")
       /\ lists' # lists => \E l \in Loaders : loading[l] # NotLoading]_vars

C23_Witness ==
    /\ create.pc = "idle"
    /\ create.last = "failed"
    /\ forms[create.form] = "entered"
    /\ ~isSubmitting
    /\ TotalRows > 0

\* ------------------------------------------------------------------------
\* Claims about the Amplify provider

\* C24: the children are rendered only after Amplify.configure was called
\* with a non-empty userPoolId, userPoolClientId and identityPoolId; when
\* the fetch fails, answers with a non-OK status or lacks one of the three
\* values, the configuration error is shown and not the children.
C24_ChildrenOnlyWhenConfigured ==
    /\ Rendered = "children" =>
          \A k \in ConfigKeys :
              amplifyConfig[k] \notin {"not configured", "undefined", ""}
    /\ (/\ configResponse # NoConfigResponse
        /\ \/ configResponse.kind = "rejected"
           \/ ~configResponse.ok
           \/ configResponse.kind = "not json"
           \/ \E k \in ConfigKeys : configResponse.body[k] \in {"undefined", ""})
       => Rendered = "Configuration Error"

C24_Witness ==
    /\ Rendered = "children"
    /\ configResponse.kind = "response"
    /\ amplifyConfig = configResponse.body
    /\ HasRequiredValues(amplifyConfig)

\* ------------------------------------------------------------------------
\* Claims about the dispatch of the local API server

C27_CurrencyRoundTrip ==
    trip.fn # "none" => trip.back = trip.amount

\* ------------------------------------------------------------------------
\* Claims about the margin

\* C28: for every cost and every selling price the margin percentage that
\* calculateMarginPercentage computes equals the margin_percentage the
\* database derives for the same inventory row, (selling_price_ore -
\* cost_per_bottle_ore) / cost_per_bottle_ore * 100; both are 0 when the cost
\* is 0.
C28_MarginAgreesWithDatabase ==
    margin.shown = "margin" =>
        /\ margin.database.stored
        /\ margin.frontend.num * 100 = margin.database.hundredths * margin.frontend.den
        /\ margin.cost = 0 =>
              (margin.frontend.num = 0 /\ margin.database.hundredths = 0)

\* ------------------------------------------------------------------------
\* Claims about the migration Lambda handler

\* C29: each operation of the handler (upgrade, current, history) reports
\* status 'success' only when the alembic command exited with code 0, and
\* otherwise reports an error that carries the error output of the command.
C29_SuccessOnlyOnExitCodeZero ==
    reply.operation # "none" =>
        LET exitedWithZero == ~reply.result.raised /\ reply.result.returncode = 0
        IN  /\ reply.response.body.status = "success" => exitedWithZero
            /\ ~exitedWithZero =>
                  /\ reply.response.status_code = 500
                  /\ \E i \in 1..Len(reply.response.detail) :
                        reply.response.detail[i] = reply.result.stderr

====
